---------------------------- MODULE Spec2Model ----------------------------
(***************************************************************************)
(* A model of the near-duplicate detection engine of dup-doc-hunter:       *)
(*   core/document.py              Document, its tokenizers, the MinHash   *)
(*                                 signature                               *)
(*   core/jaccard_calculator.py    JaccardCalculator                       *)
(*   core/milvus_minhash_lsh_service.py   MilvusMinHashLSHService          *)
(*                                                                         *)
(* Text is a sequence of one-character strings, a byte string a sequence   *)
(* of numbers 0..255.  An unsigned 64-bit number is the sequence of its 8  *)
(* base-256 digits, least significant first (TLC's integers have 32 bits), *)
(* so that a byte order is a real conversion between numbers and bytes.    *)
(***************************************************************************)
EXTENDS Integers, Sequences, FiniteSets, TLC

VARIABLES
    byteorder,      \* sys.byteorder of the machine: "little" or "big"
    m,              \* hashvalues of the MinHash object built by the last call
    sigA, sigB,     \* the first and the latest call of generate_minhash_signature
    sig1, sig2,     \* the arguments of calculate_jaccard_similarity
    similarity,     \* what calculate_jaccard_similarity(sig1, sig2) returned or raised
    swapped,        \* what calculate_jaccard_similarity(sig2, sig1) returned or raised
    content,        \* the content argument of Document.from_text
    doc_perm,       \* the num_perm argument of Document.from_text
    document,       \* the Document that from_text returned
    calculator,     \* self.num_perm of the JaccardCalculator
    text_content,   \* the arguments of filter_by_jaccard_similarity
    documents,
    threshold,
    filtered,       \* what filter_by_jaccard_similarity returned
    service,        \* the fields of the MilvusMinHashLSHService
    collection,     \* client.has_collection(collection_name)
    rows,           \* the records of the collection, in the order inserted
    called,         \* the method of the service called last
    results,        \* what client.search answered in the last search
    output,         \* what the last call of the service returned or raised
    requests,       \* the calls of the client the last call of the service made
    visible,        \* how many of the rows are older than the staleness window
    seen,           \* how many rows the last search was answered from
    vectors,        \* the signatures the last call of the service sent
    markdown,       \* the Markdown text handed to split_by_jieba_v2, with its parts
    md_tokens,      \* what split_by_jieba_v2 returned
    pc,             \* where the call of each thread stands
    invoked,        \* the call each thread makes, with its arguments
    objects,        \* the Document objects the threads share
    passed,         \* the list of Documents each thread passed to its call
    buffers,        \* the lists the calls build: insert_data, filtered_documents
    cursor,         \* the loop of each call: the place in the list passed in
    sent,           \* the calls of the client each thread has made
    returned,       \* what the call of each thread returned
    slicer,         \* the fields of the MarkdownSlicer
    md_text,        \* the arguments of MarkdownSlicer.slice
    md_filename,
    md_slices,      \* what MarkdownSlicer.slice returned
    converter,      \* the converter whose replacement of images is called
    markdown_text,  \* the Markdown docling exported, with its pieces
    image_mapping,  \* the entries of the mapping, in the order inserted
    replaced        \* what the replacement returned

sigVars == <<m, sigA, sigB>>
jacVars == <<sig1, sig2, similarity, swapped>>
docVars == <<content, doc_perm, document>>
filterVars == <<calculator, text_content, documents, threshold, filtered>>
markdownVars == <<markdown, md_tokens>>
threadVars ==
    <<pc, invoked, objects, passed, buffers, cursor, sent, returned>>
slicerVars == <<slicer, md_text, md_filename, md_slices>>
imageVars == <<converter, markdown_text, image_mapping, replaced>>
indexVars ==
    <<service, collection, rows, called, results, output, requests, visible,
      seen, vectors>>

-----------------------------------------------------------------------------
(* Bounds of the model *)

\* longest token list handed to generate_minhash_signature
MaxTokens == 2
\* largest num_perm
MaxPerm == 2
\* longest content handed to Document.from_text, in characters
MaxContent == 3
\* longest list of documents handed to filter_by_jaccard_similarity or to
\* insert_documents, and the largest doc_id
MaxDocs == 2
\* most records the collection holds
MaxRows == 3
\* most lines of a Markdown table handed to split_by_jieba_v2
MaxLines == 2

None == [kind |-> "None"]

-----------------------------------------------------------------------------
(* Sequences *)

RECURSIVE Concat(_)
Concat(ss) == IF ss = <<>> THEN <<>> ELSE Head(ss) \o Concat(Tail(ss))

SeqsUpTo(S, n) == UNION {[1..k -> S] : k \in 0..n}

Range(s) == {s[i] : i \in DOMAIN s}

-----------------------------------------------------------------------------
(* Characters: str.lower() and str.encode("utf8") *)

LowerChar(c) ==
    CASE c = "A" -> "a"
      [] c = "B" -> "b"
      [] OTHER -> c

\* str.lower()
Lower(s) == [i \in DOMAIN s |-> LowerChar(s[i])]

\* the UTF-8 bytes of one character
CharBytes(c) ==
    CASE c = "a" -> <<97>>
      [] c = "b" -> <<98>>
      [] c = "A" -> <<65>>
      [] c = "B" -> <<66>>
      [] c = "1" -> <<49>>
      [] c = "2" -> <<50>>
      [] c = " " -> <<32>>
      [] c = "\n" -> <<10>>
      [] c = "," -> <<44>>
      [] c = "." -> <<46>>
      [] c = ":" -> <<58>>
      [] c = "|" -> <<124>>
      [] c = "-" -> <<45>>
      [] c = "#" -> <<35>>
      [] c = "!" -> <<33>>
      [] c = "[" -> <<91>>
      [] c = "]" -> <<93>>
      [] c = "(" -> <<40>>
      [] c = ")" -> <<41>>
      [] c = "'" -> <<39>>
      [] c = "*" -> <<42>>
      [] c = "?" -> <<63>>
      [] c = ";" -> <<59>>
      [] c = "\t" -> <<9>>
      [] c = "+" -> <<43>>
      [] c = "_" -> <<95>>
      [] c = "~" -> <<126>>
      [] c = ">" -> <<62>>
      [] c = "U+0060" -> <<96>>
      [] c = "U+FF0C" -> <<239, 188, 140>>
      [] c = "U+4E2D" -> <<228, 184, 173>>

\* str.encode("utf8")
EncodeUtf8(s) == Concat([i \in DOMAIN s |-> CharBytes(s[i])])

-----------------------------------------------------------------------------
(* Unsigned 64-bit numbers (numpy uint64) as 8 base-256 digits, least      *)
(* significant digit first                                                 *)

\* the uint64 of a number below 2^31
ToU64(n) ==
    <<n % 256, (n \div 256) % 256, (n \div 65536) % 256, (n \div 16777216) % 256,
      0, 0, 0, 0>>

\* x < y on uint64: decided by the most significant digit that differs
U64Less(x, y) ==
    \E k \in 1..8 : /\ x[k] < y[k]
                    /\ \A j \in (k+1)..8 : x[j] = y[j]

\* np.minimum on two uint64
U64Min(x, y) == IF U64Less(y, x) THEN y ELSE x

\* ndarray.astype('>u8').tobytes() of one element: most significant byte first
BigEndianBytes(v) == [j \in 1..8 |-> v[9 - j]]

\* the bytes of one element in little-endian order
LittleEndianBytes(v) == v


-----------------------------------------------------------------------------
(* Text: the character classes of the regular expressions of document.py.  *)
(* "U+4E2D" stands for one CJK ideograph, "U+FF0C" for the full-width      *)
(* comma, "U+0060" for the backquote; every other character is the         *)
(* one-character string itself.                                            *)

Letters == {"a", "b", "A", "B"}
Decimals == {"1", "2"}
\* [一-鿿]
Han == {"U+4E2D"}
\* \s, and what str.strip() removes
Whitespace == {" ", "\n", "\t"}

\* the least index i >= from with text[i] \in set, or 0
IndexIn(text, set, from) ==
    LET hits == {i \in from..Len(text) : text[i] \in set}
    IN  IF hits = {} THEN 0 ELSE CHOOSE i \in hits : \A j \in hits : i <= j

\* the length of the longest run of characters of set that starts at p
RunLength(text, set, p) ==
    LET stop == {i \in p..Len(text) : text[i] \notin set}
    IN  IF p > Len(text) THEN 0
        ELSE IF stop = {} THEN Len(text) - p + 1
        ELSE (CHOOSE i \in stop : \A j \in stop : i <= j) - p

\* text[p:]
From(text, p) == SubSeq(text, p, Len(text))

\* whether text[p:] starts with prefix
StartsWithAt(text, prefix, p) ==
    /\ p + Len(prefix) - 1 <= Len(text)
    /\ SubSeq(text, p, p + Len(prefix) - 1) = prefix

\* str.strip(chars)
RECURSIVE StripChars(_, _)
StripChars(text, set) ==
    IF text = <<>> THEN text
    ELSE IF Head(text) \in set THEN StripChars(Tail(text), set)
    ELSE IF text[Len(text)] \in set
         THEN StripChars(SubSeq(text, 1, Len(text) - 1), set)
    ELSE text

\* str.strip()
Strip(text) == StripChars(text, Whitespace)

\* sep.join(parts)
RECURSIVE Join(_, _)
Join(sep, parts) ==
    IF parts = <<>> THEN <<>>
    ELSE IF Len(parts) = 1 THEN parts[1]
    ELSE parts[1] \o sep \o Join(sep, Tail(parts))

\* str.split(sep) for a one-character sep
RECURSIVE SplitOn(_, _)
SplitOn(text, sep) ==
    LET k == IndexIn(text, {sep}, 1)
    IN  IF k = 0 THEN <<text>>
        ELSE <<SubSeq(text, 1, k - 1)>> \o SplitOn(From(text, k + 1), sep)

\* re.split on the empty matches of a lookbehind (?<=[set]): a cut after
\* every character of set, the end of the text included
RECURSIVE SplitAfter(_, _)
SplitAfter(text, set) ==
    LET k == IndexIn(text, set, 1)
    IN  IF k = 0 THEN <<text>>
        ELSE <<SubSeq(text, 1, k)>> \o SplitAfter(From(text, k + 1), set)

\* [s.strip() for s in parts if s.strip()]
StripNonEmpty(parts) ==
    SelectSeq([i \in DOMAIN parts |-> Strip(parts[i])], LAMBDA x : x # <<>>)

-----------------------------------------------------------------------------
(* Document.split and Document.split_sentences                             *)

\* [。！？；：，,;:\s]; of the full-width marks the model's texts hold the comma
SentenceDelimiters == {"U+FF0C", ",", ";", ":"} \cup Whitespace

\* Document.split_sentences(text)
SplitSentences(text) == StripNonEmpty(SplitAfter(text, SentenceDelimiters))

\* str.split(): the runs of characters between whitespace
SplitWhitespace(text) == StripNonEmpty(SplitAfter(text, Whitespace))

\* Document.split(text)
Split(text) == SplitSentences(text)

-----------------------------------------------------------------------------
(* Document.split_by_jieba_v2, step by step                                *)

\* str.splitlines(); "\n" is the only line break of the model's texts
RECURSIVE SplitLines(_)
SplitLines(text) ==
    LET k == IndexIn(text, {"\n"}, 1)
    IN  IF text = <<>> THEN <<>>
        ELSE IF k = 0 THEN <<text>>
        ELSE <<SubSeq(text, 1, k - 1)>> \o SplitLines(From(text, k + 1))

\* the position after  :?-{3,}:?\s*  matched at p, or 0 when it does not match
AfterDashCell(line, p) ==
    LET c == IF p <= Len(line) /\ line[p] = ":" THEN p + 1 ELSE p
        d == RunLength(line, {"-"}, c)
        e == IF c + d <= Len(line) /\ line[c + d] = ":" THEN c + d + 1 ELSE c + d
    IN  IF d < 3 THEN 0 ELSE e + RunLength(line, Whitespace, e)

\* the position after the longest run of groups  \|\s*:?-{3,}:?\s*  from p
RECURSIVE AfterDashGroups(_, _)
AfterDashGroups(line, p) ==
    LET q == IF p <= Len(line) /\ line[p] = "|"
             THEN AfterDashCell(line, p + 1 + RunLength(line, Whitespace, p + 1))
             ELSE 0
    IN  IF q = 0 THEN p ELSE AfterDashGroups(line, q)

\* table_sep_re.match(line):
\* ^\s*\|?\s*:?-{3,}:?\s*(\|\s*:?-{3,}:?\s*)+\|?\s*$
IsTableSeparator(line) ==
    LET p1 == 1 + RunLength(line, Whitespace, 1)
        p2 == IF p1 <= Len(line) /\ line[p1] = "|" THEN p1 + 1 ELSE p1
        p3 == p2 + RunLength(line, Whitespace, p2)
        p4 == AfterDashCell(line, p3)
        p5 == IF p4 = 0 THEN 0 ELSE AfterDashGroups(line, p4)
        p6 == IF p5 <= Len(line) /\ p5 > 0 /\ line[p5] = "|" THEN p5 + 1 ELSE p5
        p7 == p6 + RunLength(line, Whitespace, p6)
    IN  /\ p4 # 0
        /\ p5 > p4
        /\ p7 = Len(line) + 1

\* '|' in line and line.strip().startswith('|')
IsTableRow(line) ==
    /\ "|" \in Range(line)
    /\ StartsWithAt(Strip(line), <<"|">>, 1)

\* the non-empty stripped cells of a table row
Cells(line) ==
    StripNonEmpty(SplitOn(StripChars(Strip(line), {"|"}), "|"))

\* the loop over the lines: separator rows dropped, rows turned into cells
RECURSIVE CleanTableLines(_)
CleanTableLines(lines) ==
    IF lines = <<>> THEN <<>>
    ELSE LET line == Head(lines)
             rest == CleanTableLines(Tail(lines))
         IN  IF IsTableSeparator(line) THEN rest
             ELSE IF IsTableRow(line)
                  THEN IF Cells(line) # <<>>
                       THEN <<Join(<<" ">>, Cells(line))>> \o rest
                       ELSE rest
             ELSE <<line>> \o rest

\* lines 115-128: text without its Markdown table syntax
CleanTables(text) == Join(<<"\n">>, CleanTableLines(SplitLines(text)))

\* the index j of the "](" that ends the group (.*?) of  prefix(.*?)\]\(.*?\)
\* matched at p, or 0: the first "](" on the line that a ")" follows on the line
MarkupBracket(text, prefix, p) ==
    LET g == p + Len(prefix)
        ok == {j \in g..(Len(text) - 1) :
                  /\ text[j] = "]"
                  /\ text[j + 1] = "("
                  /\ \A i \in g..(j - 1) : text[i] # "\n"
                  /\ \E e \in (j + 2)..Len(text) :
                        /\ text[e] = ")"
                        /\ \A i \in (j + 2)..(e - 1) : text[i] # "\n"}
    IN  IF ~StartsWithAt(text, prefix, p) \/ ok = {} THEN 0
        ELSE CHOOSE j \in ok : \A k \in ok : j <= k

\* re.sub(prefix(.*?)\]\(.*?\), r'\1', text) from position p on
RECURSIVE SubMarkup(_, _, _)
SubMarkup(text, prefix, p) ==
    LET j == MarkupBracket(text, prefix, p)
    IN  IF p > Len(text) THEN <<>>
        ELSE IF j = 0 THEN <<text[p]>> \o SubMarkup(text, prefix, p + 1)
        ELSE SubSeq(text, p + Len(prefix), j - 1)
                 \o SubMarkup(text, prefix, IndexIn(text, {")"}, j + 2) + 1)

\* re.sub(r'!\[(.*?)\]\(.*?\)', r'\1', text)
SubImages(text) == SubMarkup(text, <<"!", "[">>, 1)

\* re.sub(r'\[(.*?)\]\(.*?\)', r'\1', text)
SubLinks(text) == SubMarkup(text, <<"[">>, 1)

\* three backquotes
Fence == <<"U+0060", "U+0060", "U+0060">>

\* the least index q >= from where text[q:] starts with prefix, or 0
IndexOf(text, prefix, from) ==
    LET hits == {q \in from..Len(text) : StartsWithAt(text, prefix, q)}
    IN  IF hits = {} THEN 0 ELSE CHOOSE q \in hits : \A r \in hits : q <= r

\* re.sub of a fenced code block, fence .*? fence with re.S, by ' ', from p on
RECURSIVE SubCodeBlocks(_, _)
SubCodeBlocks(text, p) ==
    LET q == IF StartsWithAt(text, Fence, p) THEN IndexOf(text, Fence, p + 3) ELSE 0
    IN  IF p > Len(text) THEN <<>>
        ELSE IF q = 0 THEN <<text[p]>> \o SubCodeBlocks(text, p + 1)
        ELSE <<" ">> \o SubCodeBlocks(text, q + 3)

\* the length of the marker of a kind matched at p, or 0:
\* [-*+] of a list item, \d+\. of an ordered item, #{1,6} of a heading
MarkerLength(kind, text, p) ==
    CASE kind = "list" ->
             IF p <= Len(text) /\ text[p] \in {"-", "*", "+"} THEN 1 ELSE 0
      [] kind = "ordered" ->
             LET d == RunLength(text, Decimals, p)
             IN  IF d > 0 /\ p + d <= Len(text) /\ text[p + d] = "." THEN d + 1 ELSE 0
      [] kind = "heading" ->
             LET h == RunLength(text, {"#"}, p)
             IN  IF h <= 6 THEN h ELSE 0

\* the length of  ^\s*marker\s+  matched at p (re.M), or 0
LinePrefixLength(kind, text, p) ==
    LET w == RunLength(text, Whitespace, p)
        k == MarkerLength(kind, text, p + w)
        v == RunLength(text, Whitespace, p + w + k)
    IN  IF (p = 1 \/ text[p - 1] = "\n") /\ k > 0 /\ v > 0 THEN w + k + v ELSE 0

\* re.sub(r'^\s*marker\s+', '', text, flags=re.M) from position p on
RECURSIVE SubLinePrefix(_, _, _)
SubLinePrefix(kind, text, p) ==
    LET n == LinePrefixLength(kind, text, p)
    IN  IF p > Len(text) THEN <<>>
        ELSE IF n = 0 THEN <<text[p]>> \o SubLinePrefix(kind, text, p + 1)
        ELSE SubLinePrefix(kind, text, p + n)

\* re.sub(r'[set]+', ' ', text) from position p on
RECURSIVE SubRuns(_, _, _)
SubRuns(text, set, p) ==
    LET n == RunLength(text, set, p)
    IN  IF p > Len(text) THEN <<>>
        ELSE IF n = 0 THEN <<text[p]>> \o SubRuns(text, set, p + 1)
        ELSE <<" ">> \o SubRuns(text, set, p + n)

\* lines 130-138: the Markdown decoration removed
CleanMarkdown(text) ==
    LET t1 == SubImages(text)
        t2 == SubLinks(t1)
        t3 == SubCodeBlocks(t2, 1)
        t4 == SubLinePrefix("list", t3, 1)
        t5 == SubLinePrefix("ordered", t4, 1)
        t6 == SubLinePrefix("heading", t5, 1)
        t7 == SubRuns(t6, {"U+0060", "*", "_", "~", ">"}, 1)
    IN  SubRuns(t7, {" ", "\t"}, 1)

\* [。！？；：，,;:.!?]; of the full-width marks the model's texts hold the comma
ClauseMarks == {"U+FF0C", ",", ";", ":", ".", "!", "?"}

\* SplitAfter applied to every part, the results put together
RECURSIVE SplitAllAfter(_, _)
SplitAllAfter(parts, set) ==
    IF parts = <<>> THEN <<>>
    ELSE SplitAfter(Head(parts), set) \o SplitAllAfter(Tail(parts), set)

\* lines 141-142: re.split(r'(?<=[marks])|\n+', text), stripped, the empty
\* ones dropped: a cut after every mark and at every run of line breaks
SplitClauses(text) ==
    StripNonEmpty(SplitAllAfter(SplitOn(text, "\n"), ClauseMarks))

\* the length of the match of en_num_token_re at p, or 0:
\* [A-Za-z]+(?:'[A-Za-z]+)?|\d+(?:\.\d+)?|[一-鿿]
TokenLength(s, p) ==
    LET l == RunLength(s, Letters, p)
        l2 == IF p + l <= Len(s) /\ s[p + l] = "'"
              THEN RunLength(s, Letters, p + l + 1) ELSE 0
        d == RunLength(s, Decimals, p)
        d2 == IF p + d <= Len(s) /\ s[p + d] = "."
              THEN RunLength(s, Decimals, p + d + 1) ELSE 0
    IN  IF l > 0 THEN (IF l2 > 0 THEN l + 1 + l2 ELSE l)
        ELSE IF d > 0 THEN (IF d2 > 0 THEN d + 1 + d2 ELSE d)
        ELSE IF p <= Len(s) /\ s[p] \in Han THEN 1
        ELSE 0

\* en_num_token_re.findall(s) from position p on
RECURSIVE FindAllTokens(_, _)
FindAllTokens(s, p) ==
    LET n == TokenLength(s, p)
    IN  IF p > Len(s) THEN <<>>
        ELSE IF n = 0 THEN FindAllTokens(s, p + 1)
        ELSE <<SubSeq(s, p, p + n - 1)>> \o FindAllTokens(s, p + n)

\* jieba.lcut(s) from position p on.  The segmentation is the library's and
\* depends on its dictionary; here every run of letters or digits is a word
\* and every other character a word of its own.
RECURSIVE JiebaLcut(_, _)
JiebaLcut(s, p) ==
    LET n == RunLength(s, Letters \cup Decimals, p)
    IN  IF p > Len(s) THEN <<>>
        ELSE IF n = 0 THEN <<<<s[p]>>>> \o JiebaLcut(s, p + 1)
        ELSE <<SubSeq(s, p, p + n - 1)>> \o JiebaLcut(s, p + n)

\* lines 155-159: the tokens of one sentence
SentenceTokens(s) ==
    IF Range(s) \cap Han # {}
    THEN SelectSeq(JiebaLcut(s, 1), LAMBDA t : Strip(t) # <<>>)
    ELSE FindAllTokens(s, 1)

RECURSIVE AllSentenceTokens(_)
AllSentenceTokens(sentences) ==
    IF sentences = <<>> THEN <<>>
    ELSE SentenceTokens(Head(sentences)) \o AllSentenceTokens(Tail(sentences))

\* Document.split_by_jieba_v2(text)
SplitByJiebaV2(text) ==
    SelectSeq(AllSentenceTokens(SplitClauses(CleanMarkdown(CleanTables(text)))),
              LAMBDA t : Strip(t) # <<>>)

\* no call of split_by_jieba_v2 made
MarkdownIdle ==
    /\ markdown = None
    /\ md_tokens = None

\* no thread started
ThreadsIdle ==
    /\ pc = <<>>
    /\ invoked = <<>>
    /\ objects = <<>>
    /\ passed = <<>>
    /\ buffers = <<>>
    /\ cursor = <<>>
    /\ sent = <<>>
    /\ returned = <<>>

\* no MarkdownSlicer constructed
SlicerIdle ==
    /\ slicer = None
    /\ md_text = <<>>
    /\ md_filename = <<>>
    /\ md_slices = None

\* no converter called
ImagesIdle ==
    /\ converter = ""
    /\ markdown_text = None
    /\ image_mapping = <<>>
    /\ replaced = None

-----------------------------------------------------------------------------
(* datasketch.MinHash as Document.generate_minhash_signature uses it       *)
(* (document.py line 37: MinHash(num_perm=num_perm), seed 1, sha1_hash32). *)
(* The library hashes with SHA-1 and permutes modulo 2^61 - 1; here a      *)
(* polynomial hash and the prime 2^13 - 1 stand for them, so that the      *)
(* products fit TLC's integers.  The mask and the initial value keep the   *)
(* library's 2^32 - 1.                                                     *)

\* _max_hash = 2^32 - 1
MaxHash == <<255, 255, 255, 255, 0, 0, 0, 0>>

\* hashfunc: the 32-bit hash of the bytes of a token
RECURSIVE Sha1Hash32(_)
Sha1Hash32(b) ==
    IF b = <<>> THEN 5381
    ELSE (Sha1Hash32(SubSeq(b, 1, Len(b) - 1)) * 33 + b[Len(b)]) % 65521

\* the pair (a, b) of the i-th permutation, drawn by RandomState(seed = 1):
\* the same pair for every MinHash object and in every process
PermutationA(i) == 1 + ((i * 99) % 8190)
PermutationB(i) == (i * 4729) % 8191

\* np.bitwise_and(v, _max_hash)
BitwiseAndMaxHash(v) == [k \in 1..8 |-> IF MaxHash[k] = 255 THEN v[k] ELSE 0]

\* phv[i] = ((a * hv + b) % _mersenne_prime) & _max_hash
PermutedHash(i, b) ==
    BitwiseAndMaxHash(
        ToU64((PermutationA(i) * Sha1Hash32(b) + PermutationB(i)) % 8191))

\* a MinHash object shared by the calls: what the previous call left in it
MinHashShared(n) == IF Len(m) = n THEN m ELSE [i \in 1..n |-> MaxHash]

\* a MinHash object whose hashvalues start at zero
MinHashZeros(n) == [i \in 1..n |-> ToU64(0)]

\* MinHash(num_perm = n): a new object, hashvalues = _max_hash everywhere
MinHashNew(n) == [i \in 1..n |-> MaxHash]

\* an update that overwrites the value instead of keeping the minimum
UpdateOverwrite(hashvalues, b) ==
    [i \in DOMAIN hashvalues |-> PermutedHash(i, b)]

\* MinHash.update(b): hashvalues = np.minimum(phv, hashvalues)
Update(hashvalues, b) ==
    [i \in DOMAIN hashvalues |-> U64Min(PermutedHash(i, b), hashvalues[i])]

\* the token as it is hashed, case kept
TokenBytesCased(token) == EncodeUtf8(token)

\* token.lower().encode("utf8")
TokenBytes(token) == EncodeUtf8(Lower(token))

\* for token in tokens: m.update(token.lower().encode("utf8"))
RECURSIVE UpdateAll(_, _)
UpdateAll(hashvalues, tokens) ==
    IF tokens = <<>> THEN hashvalues
    ELSE UpdateAll(Update(hashvalues, TokenBytes(Head(tokens))), Tail(tokens))

\* the hashvalues serialised in the machine's little-endian order
ToBytesLittleEndian(hashvalues) ==
    Concat([i \in DOMAIN hashvalues |-> LittleEndianBytes(hashvalues[i])])

\* m.hashvalues.astype('>u8').tobytes()
ToBytes(hashvalues) ==
    Concat([i \in DOMAIN hashvalues |-> BigEndianBytes(hashvalues[i])])

\* the hashvalues of m when the loop of generate_minhash_signature ends
Hashvalues(tokens, num_perm) == UpdateAll(MinHashNew(num_perm), tokens)

\* Document.generate_minhash_signature(tokens, num_perm)
GenerateMinhashSignature(tokens, num_perm) ==
    ToBytes(Hashvalues(tokens, num_perm))

-----------------------------------------------------------------------------
(* JaccardCalculator.calculate_jaccard_similarity.  A Python float that is *)
(* the quotient of two small integers is kept as the fraction in lowest    *)
(* terms: two such floats are equal exactly when the fractions are.        *)

RECURSIVE Gcd(_, _)
Gcd(a, b) == IF b = 0 THEN a ELSE Gcd(b, a % b)

Float(num, den) ==
    [kind |-> "float", num |-> num \div Gcd(num, den), den |-> den \div Gcd(num, den)]

Raised(exception) == [kind |-> exception]

\* a call that returned a list
Returned(list) == [kind |-> "list", list |-> list]

\* the / of two Python ints
TrueDivide(a, b) ==
    IF b = 0 THEN Raised("ZeroDivisionError") ELSE Float(a, b)

\* the low 4 bytes of the element only, as a read with dtype uint32 of every
\* other element would give
NativeLowHalf(g) ==
    IF byteorder = "little"
    THEN [k \in 1..8 |-> IF k <= 4 THEN g[k] ELSE 0]
    ELSE [k \in 1..8 |-> IF k <= 4 THEN g[9 - k] ELSE 0]

\* one uint64 read from 8 bytes in the machine's byte order
NativeU64(g) ==
    IF byteorder = "little" THEN g ELSE [k \in 1..8 |-> g[9 - k]]

\* np.frombuffer(sig, dtype=np.uint64), for a buffer of whole elements
FromBuffer(sig) ==
    [i \in 1..(Len(sig) \div 8) |-> NativeU64(SubSeq(sig, 8 * (i - 1) + 1, 8 * i))]

\* np.intersect1d(a1, a2).size: the distinct values found in both arrays
Intersect1dSize(a1, a2) == Cardinality(Range(a1) \cap Range(a2))

\* the size of the two arrays put together, repeated values counted
ConcatenateSize(a1, a2) == Len(a1) + Len(a2) - Intersect1dSize(a1, a2)

\* the distinct values of the first array only
Unique1Size(a1, a2) == Cardinality(Range(a1))

\* np.union1d(a1, a2).size: the distinct values found in either array
Union1dSize(a1, a2) == Cardinality(Range(a1) \cup Range(a2))

\* JaccardCalculator.calculate_jaccard_similarity(sig1, sig2)
CalculateJaccardSimilarity(s1, s2) ==
    IF Len(s1) % 8 # 0 \/ Len(s2) % 8 # 0
    THEN Raised("ValueError")
    ELSE LET sig1_array == FromBuffer(s1)
             sig2_array == FromBuffer(s2)
             intersection == Intersect1dSize(sig1_array, sig2_array)
             union == Union1dSize(sig1_array, sig2_array)
         IN  TrueDivide(intersection, union)

\* no call of calculate_jaccard_similarity made yet
JaccardIdle ==
    /\ sig1 = <<>>
    /\ sig2 = <<>>
    /\ similarity = None
    /\ swapped = None

-----------------------------------------------------------------------------
(* Document.from_text                                                      *)

\* the sequences that hold every element of a set once
Orderings(set) ==
    {o \in [1..Cardinality(set) -> set] : Range(o) = set}

\* " ".join(set(tokens)): a set of str is iterated in an order that changes
\* from one process to the next (hash randomisation), so any order
TokenStrings(tokens) ==
    {Join(<<" ">>, o) : o \in Orderings(Range(tokens))}

\* Document(doc_id, doc_name, minhash_signature, token_set)
Document(doc_id, doc_name, minhash_signature, token_set) ==
    [doc_id |-> doc_id, doc_name |-> doc_name,
     minhash_signature |-> minhash_signature, token_set |-> token_set]

\* the Documents that Document.from_text(doc_id, doc_name, content, num_perm)
\* may return
FromText(doc_id, doc_name, text, n) ==
    LET tokens == Split(text)
        signature == GenerateMinhashSignature(tokens, n)
    IN  {Document(doc_id, doc_name, signature, token_str) :
             token_str \in TokenStrings(tokens)}

\* no call of from_text made
DocumentIdle ==
    /\ content = <<>>
    /\ doc_perm = 0
    /\ document = None

-----------------------------------------------------------------------------
(* JaccardCalculator.filter_by_jaccard_similarity                          *)

\* x > y on two floats
FloatGreater(x, y) == x.num * y.den > y.num * x.den

\* x >= y on two floats
FloatGreaterEqual(x, y) == x.num * y.den >= y.num * x.den

\* if similarity > threshold
ExceedsThreshold(x, y) == FloatGreater(x, y)

\* the loop of lines 39-43 over the documents from position p on; an
\* exception of calculate_jaccard_similarity ends the call
RECURSIVE FilterLoop(_, _, _, _, _)
FilterLoop(input_signature, docs, limit, p, filtered_documents) ==
    IF p > Len(docs) THEN Returned(filtered_documents)
    ELSE LET sim == CalculateJaccardSimilarity(input_signature,
                                               docs[p].minhash_signature)
         IN  IF sim.kind # "float" THEN sim
             ELSE FilterLoop(input_signature, docs, limit, p + 1,
                             IF ExceedsThreshold(sim, limit)
                             THEN Append(filtered_documents, docs[p])
                             ELSE filtered_documents)

\* JaccardCalculator(n).filter_by_jaccard_similarity(text, docs, limit)
FilterByJaccardSimilarity(n, text, docs, limit) ==
    LET input_tokens == Split(text)
        input_signature == GenerateMinhashSignature(input_tokens, n)
    IN  FilterLoop(input_signature, docs, limit, 1, <<>>)

\* no call of filter_by_jaccard_similarity made
FilterIdle ==
    /\ calculator = 0
    /\ text_content = <<>>
    /\ documents = <<>>
    /\ threshold = None
    /\ filtered = None

-----------------------------------------------------------------------------
(* MilvusMinHashLSHService.  Its client and the Milvus server behind it    *)
(* are the library pymilvus: the collection is the variables collection    *)
(* and rows, and the answers of the client are those the library           *)
(* documents.                                                              *)

\* top_k=3 and refine_k=6, the defaults of search
DefaultTopK == 3
DefaultRefineK == 6
\* hash_bit_width=64, the default of __init__
DefaultHashBitWidth == 64

\* the element widths the index MINHASH_LSH takes for mh_element_bit_width
HashBitWidths == {32, DefaultHashBitWidth}

\* the vectors of the records insert_documents hands to client.insert
Signatures(docs) == [i \in DOMAIN docs |-> docs[i].minhash_signature]

\* __init__
Service(collection_name, minhash_dim, hash_bit_width) ==
    [collection_name |-> collection_name,
     MINHASH_DIM |-> minhash_dim,
     HASH_BIT_WIDTH |-> hash_bit_width,
     VECTOR_DIM |-> minhash_dim * hash_bit_width]

\* the list insert_documents hands to client.insert
InsertData(docs) ==
    [i \in DOMAIN docs |->
        [doc_id |-> docs[i].doc_id,
         doc_name |-> docs[i].doc_name,
         minhash_signature |-> docs[i].minhash_signature,
         token_set |-> docs[i].token_set]]

RECURSIVE Pow10(_)
Pow10(n) == IF n = 0 THEN 1 ELSE 10 * Pow10(n - 1)

\* round(x, ndigits) of a float x >= 0: the nearest multiple of 10^-ndigits,
\* the even one when x is exactly half way
Round(x, ndigits) ==
    LET scale == Pow10(ndigits)
        q == (x.num * scale) \div x.den
        rest == x.num * scale - q * x.den
        up == 2 * rest > x.den \/ (2 * rest = x.den /\ q % 2 = 1)
    IN  Float(IF up THEN q + 1 ELSE q, scale)

\* one hit of the answer of client.search, with the output_fields asked for
Hit(row, distance) ==
    [id |-> row.doc_id,
     distance |-> distance,
     entity |-> [doc_id |-> row.doc_id,
                 doc_name |-> row.doc_name,
                 token_set |-> row.token_set]]

\* the dictionary search appends for one hit
OutputEntry(hit) ==
    LET hit_similarity == hit.distance
    IN  [similarity |-> Round(hit_similarity, 3),
         distance |-> hit.distance,
         doc_id |-> hit.entity.doc_id,
         doc_name |-> hit.entity.doc_name,
         token_set |-> hit.entity.token_set]

\* the loop over results[0]
OutputLoop(hits) == [i \in DOMAIN hits |-> OutputEntry(hits[i])]

\* the place a stable descending sort gives x in the sorted list: behind
\* every entry whose key is not smaller
RECURSIVE InsertDescending(_, _)
InsertDescending(sorted, x) ==
    IF sorted = <<>> THEN <<x>>
    ELSE IF FloatGreater(x.similarity, Head(sorted).similarity)
         THEN <<x>> \o sorted
         ELSE <<Head(sorted)>> \o InsertDescending(Tail(sorted), x)

\* the place a stable ascending sort gives x
RECURSIVE InsertAscending(_, _)
InsertAscending(sorted, x) ==
    IF sorted = <<>> THEN <<x>>
    ELSE IF FloatGreater(Head(sorted).similarity, x.similarity)
         THEN <<x>> \o sorted
         ELSE <<Head(sorted)>> \o InsertAscending(Tail(sorted), x)

RECURSIVE SortAscending(_, _)
SortAscending(list, sorted) ==
    IF list = <<>> THEN sorted
    ELSE SortAscending(Tail(list), InsertAscending(sorted, Head(list)))

Reverse(list) == [i \in DOMAIN list |-> list[Len(list) + 1 - i]]

\* list.sort(key=similarity) followed by list.reverse()
SortThenReverse(list) == Reverse(SortAscending(list, <<>>))

RECURSIVE SortDescending(_, _)
SortDescending(list, sorted) ==
    IF list = <<>> THEN sorted
    ELSE SortDescending(Tail(list), InsertDescending(sorted, Head(list)))

\* output.sort(key=lambda x: x["similarity"], reverse=True): list.sort is
\* stable, and with reverse=True equal keys keep their order
SortReverse(list) == SortDescending(list, <<>>)

\* what search returns for the hits results[0]
SearchOutput(hits) == SortReverse(OutputLoop(hits))

\* a search that reads results[0][0] before its loop
SearchReturnFirstHit(answer) ==
    IF Len(answer) = 0 \/ Len(answer[1]) = 0 THEN Raised("IndexError")
    ELSE Returned(SearchOutput(answer[1]))

\* search from the answer of client.search on: results[0] of a list without
\* entries raises IndexError
SearchReturn(answer) ==
    IF Len(answer) = 0 THEN Raised("IndexError")
    ELSE Returned(SearchOutput(answer[1]))

\* one call of the client as the service made it, and the error the server
\* answered it with ("" for none)
Request(call, error) == [call |-> call, error |-> error]

\* no service constructed
IndexIdle ==
    /\ service = None
    /\ collection = FALSE
    /\ rows = <<>>
    /\ called = ""
    /\ results = None
    /\ output = None
    /\ requests = <<>>
    /\ visible = 0
    /\ seen = 0
    /\ vectors = <<>>

-----------------------------------------------------------------------------
(* Specification SpecSignature: calls of generate_minhash_signature        *)

\* the tokens the calls draw from
TokenPool == {<<"a">>, <<"A">>, <<"b">>}

TokenLists == SeqsUpTo(TokenPool, MaxTokens)

\* a call and what it returned: the bytes of the hashvalues its loop left
Call(tokens, num_perm, hashvalues) ==
    [kind |-> "call", tokens |-> tokens, num_perm |-> num_perm,
     signature |-> ToBytes(hashvalues)]

\* no call of generate_minhash_signature made yet
SignatureIdle ==
    /\ m = <<>>
    /\ sigA = None
    /\ sigB = None

InitSignature ==
    /\ byteorder = "little"
    /\ SignatureIdle
    /\ JaccardIdle
    /\ DocumentIdle
    /\ FilterIdle
    /\ IndexIdle
    /\ MarkdownIdle
    /\ ThreadsIdle
    /\ SlicerIdle
    /\ ImagesIdle

\* the first call; the caller keeps its result as A
GenerateFirst(tokens, num_perm) ==
    /\ sigA = None
    /\ m' = Hashvalues(tokens, num_perm)
    /\ sigA' = Call(tokens, num_perm, m')
    /\ UNCHANGED <<byteorder, sigB, jacVars, docVars, filterVars, indexVars,
                   markdownVars,
                   threadVars,
                   slicerVars,
                   imageVars>>

\* any later call; the caller keeps the result of the latest as B
GenerateAgain(tokens, num_perm) ==
    /\ sigA # None
    /\ m' = Hashvalues(tokens, num_perm)
    /\ sigB' = Call(tokens, num_perm, m')
    /\ UNCHANGED <<byteorder, sigA, jacVars, docVars, filterVars, indexVars,
                   markdownVars,
                   threadVars,
                   slicerVars,
                   imageVars>>

NextSignature ==
    \E tokens \in TokenLists, num_perm \in 1..MaxPerm :
        \/ GenerateFirst(tokens, num_perm)
        \/ GenerateAgain(tokens, num_perm)

vars ==
    <<byteorder, sigVars, jacVars, docVars, filterVars, indexVars,
      markdownVars, threadVars, slicerVars, imageVars>>

SpecSignature == InitSignature /\ [][NextSignature]_vars

-----------------------------------------------------------------------------
(* Properties of generate_minhash_signature, under SpecSignature           *)

Calls == {sigA, sigB} \ {None}

PerFunctionMinimum(tokens, i) ==
    LET hashes == {PermutedHash(i, EncodeUtf8(Lower(t))) : t \in Range(tokens)}
                      \cup {MaxHash}
    IN  CHOOSE v \in hashes : \A w \in hashes : ~U64Less(w, v)

\* the number whose big-endian bytes are the 8 bytes g
DecodeBigEndian(g) == [k \in 1..8 |-> g[9 - k]]

\* the i-th group of 8 bytes of a byte string
Group(bytes, i) == SubSeq(bytes, 8 * (i - 1) + 1, 8 * i)

\* C2: the signature has num_perm * 8 bytes and its i-th group of 8 bytes is
\* the big-endian encoding of the i-th per-function minimum, the empty token
\* list included.
C2_Layout ==
    \A c \in Calls :
        /\ Len(c.signature) = c.num_perm * 8
        /\ \A i \in 1..c.num_perm :
               DecodeBigEndian(Group(c.signature, i))
                   = PerFunctionMinimum(c.tokens, i)

\* a call with no token and a call with tokens and several functions
C2_Witness ==
    /\ sigA # None
    /\ sigB # None
    /\ sigA.tokens = <<>>
    /\ sigB.tokens # <<>>
    /\ sigB.num_perm = MaxPerm
    /\ Len(sigB.signature) = MaxPerm * 8
    /\ sigB.signature # ToBytesLittleEndian(m)

LowerSet(tokens) == {Lower(t) : t \in Range(tokens)}

\* C9: the signature depends only on the set of lower-cased tokens: token
\* lists with the same set, in any order and with any repetition, have the
\* same signature.
C9_SetOnly ==
    (/\ sigA # None
     /\ sigB # None
     /\ sigA.num_perm = sigB.num_perm
     /\ LowerSet(sigA.tokens) = LowerSet(sigB.tokens))
    => sigA.signature = sigB.signature

\* two different lists of the same two lower-cased tokens, one with a
\* token in another case
C9_Witness ==
    /\ sigA # None
    /\ sigB # None
    /\ sigA.num_perm = sigB.num_perm
    /\ LowerSet(sigA.tokens) = LowerSet(sigB.tokens)
    /\ Cardinality(LowerSet(sigA.tokens)) = 2
    /\ sigA.tokens # sigB.tokens
    /\ Range(sigA.tokens) # Range(sigB.tokens)
    /\ sigA.signature = sigB.signature

\* 2^64 - 1, the largest uint64
MaxU64 == <<255, 255, 255, 255, 255, 255, 255, 255>>

\* the bytes of num_perm times the value v
Repeated(v, num_perm) == Concat([i \in 1..num_perm |-> BigEndianBytes(v)])

\* the signature of the empty token list has the value v at every place and
\* its similarity to the signature of a non-empty token list of the same
\* num_perm is 0
EmptySignatureIs(v) ==
    /\ \A c \in Calls :
           c.tokens = <<>> => c.signature = Repeated(v, c.num_perm)
    /\ \A c, d \in Calls :
           (c.tokens = <<>> /\ d.tokens # <<>> /\ c.num_perm = d.num_perm)
               => CalculateJaccardSimilarity(c.signature, d.signature)
                      = Float(0, 1)

\* C19 as stated: for the empty token list the call returns the signature
\* whose num_perm values are all 2^64 - 1, and its similarity to the
\* signature of a non-empty token list is 0.
C19_EmptyIsMaxU64 == EmptySignatureIs(MaxU64)

\* C19 as amended: for the empty token list the call returns the signature
\* whose num_perm values are all 2^32 - 1, the largest hash value of the
\* MinHash, and its similarity to the signature of a non-empty token list,
\* none of whose values is 2^32 - 1, is 0.
C19_EmptyIsMaxHash ==
    /\ \A c \in Calls :
           c.tokens = <<>> => c.signature = Repeated(MaxHash, c.num_perm)
    /\ \A c, d \in Calls :
           (/\ c.tokens = <<>>
            /\ d.tokens # <<>>
            /\ c.num_perm = d.num_perm
            /\ \A i \in 1..d.num_perm :
                   Group(d.signature, i) # BigEndianBytes(MaxHash))
               => CalculateJaccardSimilarity(c.signature, d.signature)
                      = Float(0, 1)

\* the empty token list and a list of two tokens, signed with the same
\* num_perm > 1
C19_Witness ==
    /\ sigA # None
    /\ sigB # None
    /\ sigA.tokens = <<>>
    /\ Len(sigB.tokens) = 2
    /\ sigA.num_perm = MaxPerm
    /\ sigB.num_perm = MaxPerm
    /\ sigA.signature = Repeated(MaxHash, MaxPerm)
    /\ CalculateJaccardSimilarity(sigA.signature, sigB.signature) = Float(0, 1)

-----------------------------------------------------------------------------
(* Specification SpecJaccard: calls of calculate_jaccard_similarity on     *)
(* every pair of byte strings that hold 0..MaxPerm uint64 values           *)

\* the values the signatures compared are made of
ValuePool == {ToU64(1), ToU64(256), MaxHash}

SignaturePool == {ToBytes(a) : a \in SeqsUpTo(ValuePool, MaxPerm)}

InitJaccard ==
    /\ byteorder \in {"little", "big"}
    /\ sig1 \in SignaturePool
    /\ sig2 \in SignaturePool
    /\ similarity = None
    /\ swapped = None
    /\ SignatureIdle
    /\ DocumentIdle
    /\ FilterIdle
    /\ IndexIdle
    /\ MarkdownIdle
    /\ ThreadsIdle
    /\ SlicerIdle
    /\ ImagesIdle

\* calculate_jaccard_similarity(sig1, sig2)
Calculate ==
    /\ similarity = None
    /\ similarity' = CalculateJaccardSimilarity(sig1, sig2)
    /\ UNCHANGED <<byteorder, sigVars, sig1, sig2, swapped, docVars, filterVars, indexVars,
                   markdownVars,
                   threadVars,
                   slicerVars,
                   imageVars>>

\* then calculate_jaccard_similarity with the same two arguments exchanged
CalculateSwapped ==
    /\ similarity # None
    /\ swapped = None
    /\ swapped' = CalculateJaccardSimilarity(sig2, sig1)
    /\ UNCHANGED <<byteorder, sigVars, sig1, sig2, similarity, docVars, filterVars, indexVars,
                   markdownVars,
                   threadVars,
                   slicerVars,
                   imageVars>>

NextJaccard ==
    \/ Calculate
    \/ CalculateSwapped

SpecJaccard == InitJaccard /\ [][NextJaccard]_vars

-----------------------------------------------------------------------------
(* Properties of calculate_jaccard_similarity, under SpecJaccard           *)

One == Float(1, 1)

\* C3: the similarity of a signature of num_perm >= 1 values to itself is
\* exactly 1.0.
C3_SelfSimilarity ==
    (similarity # None /\ sig1 = sig2 /\ Len(sig1) >= 8) => similarity = One

\* a signature with a repeated value compared with itself
C3_Witness ==
    /\ similarity = One
    /\ sig1 = sig2
    /\ Len(sig1) = 8 * MaxPerm
    /\ Cardinality(Range(FromBuffer(sig1))) < MaxPerm

\* C4: for two signatures of the same num_perm the similarity does not
\* depend on the order of the arguments.
C4_Symmetric ==
    (swapped # None /\ Len(sig1) = Len(sig2)) => swapped = similarity

\* both orders computed for two different signatures that share a value
C4_Witness ==
    /\ swapped # None
    /\ Len(sig1) = Len(sig2)
    /\ sig1 # sig2
    /\ similarity.kind = "float"
    /\ similarity.num > 0
    /\ Unique1Size(FromBuffer(sig1), FromBuffer(sig2))
           # Unique1Size(FromBuffer(sig2), FromBuffer(sig1))
    /\ swapped = similarity

\* C5: for every pair of signatures, zero-length ones included, the call
\* returns a value v with 0 <= v <= 1 and raises no division by zero.
C5_Bounded ==
    similarity # None =>
        /\ similarity.kind = "float"
        /\ 0 <= similarity.num
        /\ similarity.num <= similarity.den

\* C6: comparing two signatures of unequal byte length is an error, never a
\* numeric similarity.
C6_MismatchIsError ==
    (similarity # None /\ Len(sig1) # Len(sig2)) => similarity.kind # "float"

\* the number of places at which two signatures hold the same value
Matches(s1, s2) ==
    Cardinality({i \in 1..(Len(s1) \div 8) :
                    SubSeq(s1, 8 * i - 7, 8 * i) = SubSeq(s2, 8 * i - 7, 8 * i)})

\* C20: for two signatures of the same num_perm >= 1 the similarity is the
\* number of places at which they hold the same value, divided by num_perm.
C20_PositionalEstimator ==
    (similarity # None /\ Len(sig1) = Len(sig2) /\ Len(sig1) >= 8)
        => similarity = Float(Matches(sig1, sig2), Len(sig1) \div 8)

\* the distinct values a signature holds, each read big-endian as
\* generate_minhash_signature wrote it
StoredValues(sig) ==
    {DecodeBigEndian(Group(sig, i)) : i \in 1..(Len(sig) \div 8)}

\* C23: for every pair of signatures the call answers the quotient of the
\* number of distinct values stored big-endian in both by the number stored
\* in either, whatever the byte order of the machine that decodes them.
C23_SetRatioOfStoredValues ==
    similarity # None =>
        similarity =
            TrueDivide(Cardinality(StoredValues(sig1) \cap StoredValues(sig2)),
                       Cardinality(StoredValues(sig1) \cup StoredValues(sig2)))

\* on a little-endian machine, where the values read are not the values
\* stored, two different signatures that share one of three values
C23_Witness ==
    /\ byteorder = "little"
    /\ similarity = Float(1, 3)
    /\ Len(sig1) = 8 * MaxPerm
    /\ Len(sig2) = 8 * MaxPerm
    /\ Range(FromBuffer(sig1)) # StoredValues(sig1)
    /\ Cardinality(StoredValues(sig1) \cap StoredValues(sig2)) = 1

-----------------------------------------------------------------------------
(* Specification SpecDocument: one call of Document.from_text on every     *)
(* content of at most MaxContent characters                                *)

ContentAlphabet == {"a", "B", " ", ",", "#"}

Contents == SeqsUpTo(ContentAlphabet, MaxContent)

DocIds == 1..MaxDocs

DocNames == {"doc"}

InitDocument ==
    /\ byteorder = "little"
    /\ content \in Contents
    /\ doc_perm \in 1..MaxPerm
    /\ document = None
    /\ SignatureIdle
    /\ JaccardIdle
    /\ FilterIdle
    /\ IndexIdle
    /\ MarkdownIdle
    /\ ThreadsIdle
    /\ SlicerIdle
    /\ ImagesIdle

\* Document.from_text(doc_id, doc_name, content, doc_perm)
FromTextCall(doc_id, doc_name) ==
    /\ document = None
    /\ document' \in FromText(doc_id, doc_name, content, doc_perm)
    /\ UNCHANGED <<byteorder, sigVars, jacVars, content, doc_perm, filterVars, indexVars,
                   markdownVars,
                   threadVars,
                   slicerVars,
                   imageVars>>

NextDocument ==
    \E doc_id \in DocIds, doc_name \in DocNames : FromTextCall(doc_id, doc_name)

SpecDocument == InitDocument /\ [][NextDocument]_vars

-----------------------------------------------------------------------------
(* Properties of Document.from_text, under SpecDocument                    *)

\* the places <<i, j>> of the pieces of a text cut after every clause mark
\* and every whitespace character, whitespace left out: a piece starts at the
\* start of the text or after a delimiter, holds no delimiter before its
\* last character, and ends with a mark, at the end of the text or before
\* whitespace
PieceSpans(text) ==
    {span \in (1..Len(text)) \X (1..Len(text)) :
        LET i == span[1]
            j == span[2]
        IN  /\ i <= j
            /\ i = 1 \/ text[i - 1] \in SentenceDelimiters
            /\ \A k \in i..(j - 1) : text[k] \notin SentenceDelimiters
            /\ text[j] \notin Whitespace
            /\ \/ text[j] \in SentenceDelimiters
               \/ j = Len(text)
               \/ text[j + 1] \in Whitespace}

\* the pieces in the order of the text
Pieces(text) ==
    LET spans == PieceSpans(text)
        order == CHOOSE o \in [1..Cardinality(spans) -> spans] :
                     \A a, b \in 1..Cardinality(spans) : a < b => o[a][1] < o[b][1]
    IN  [a \in 1..Cardinality(spans) |-> SubSeq(text, order[a][1], order[a][2])]

-----------------------------------------------------------------------------
(* Specification SpecFilter: one call of filter_by_jaccard_similarity      *)

\* the contents of the query and of the candidate documents
QueryTexts == {<<>>, <<"a">>, <<"b">>, <<"a", " ", "b">>}

\* one Document of every content but the empty one and every num_perm, as
\* from_text builds it
DocumentPool ==
    {CHOOSE d \in FromText(0, "doc", text, n) : TRUE :
         text \in QueryTexts \ {<<>>}, n \in 1..MaxPerm}

\* the lists of documents, numbered as the callers number them: doc_id is
\* the place in the list
DocumentLists ==
    {[i \in DOMAIN docs |-> [docs[i] EXCEPT !.doc_id = i]] :
         docs \in SeqsUpTo(DocumentPool, MaxDocs)}

Thresholds == {Float(0, 1), Float(1, 3), Float(1, 2), Float(1, 1)}

InitFilter ==
    /\ byteorder \in {"little", "big"}
    /\ calculator \in 1..MaxPerm
    /\ text_content \in QueryTexts
    /\ documents \in DocumentLists
    /\ threshold \in Thresholds
    /\ filtered = None
    /\ SignatureIdle
    /\ JaccardIdle
    /\ DocumentIdle
    /\ IndexIdle
    /\ MarkdownIdle
    /\ ThreadsIdle
    /\ SlicerIdle
    /\ ImagesIdle

\* JaccardCalculator(calculator).filter_by_jaccard_similarity(
\*     text_content, documents, threshold)
Filter ==
    /\ filtered = None
    /\ filtered' = FilterByJaccardSimilarity(calculator, text_content,
                                             documents, threshold)
    /\ UNCHANGED <<byteorder, sigVars, jacVars, docVars, indexVars,
                   markdownVars, calculator, text_content, documents,
                   threshold,
                   threadVars,
                   slicerVars,
                   imageVars>>

NextFilter == Filter

SpecFilter == InitFilter /\ [][NextFilter]_vars

-----------------------------------------------------------------------------
(* Properties of filter_by_jaccard_similarity, under SpecFilter            *)

\* the similarity of the i-th document to the signature of the query
SimilarityToQuery(i) ==
    CalculateJaccardSimilarity(
        GenerateMinhashSignature(Split(text_content), calculator),
        documents[i].minhash_signature)

\* the places of the documents strictly above the threshold
Above ==
    {i \in DOMAIN documents :
        LET x == SimilarityToQuery(i)
        IN  x.num * threshold.den > threshold.num * x.den}

\* C7: the call returns exactly the documents whose similarity to the query
\* is strictly greater than the threshold, each once, in the order of the
\* list handed in; a document whose similarity equals the threshold is left
\* out.
C7_ExactlyAbove ==
    filtered # None =>
        /\ filtered.kind = "list"
        /\ Len(filtered.list) = Cardinality(Above)
        /\ \E place \in [1..Len(filtered.list) -> Above] :
               /\ \A a, b \in DOMAIN place : a < b => place[a] < place[b]
               /\ \A a \in DOMAIN place : filtered.list[a] = documents[place[a]]

\* a call that leaves out a document whose similarity equals the threshold
\* and keeps a document after it
C7_Witness ==
    /\ filtered # None
    /\ filtered.kind = "list"
    /\ \E i \in DOMAIN documents :
           /\ SimilarityToQuery(i) = threshold
           /\ Len(documents[i].minhash_signature) = 8 * calculator
           /\ threshold.num > 0
           /\ threshold.den > threshold.num
           /\ \E j \in Above : i < j
    /\ Len(filtered.list) = Cardinality(Above)
    /\ Len(filtered.list) < Len(documents)

-----------------------------------------------------------------------------
(* Specification SpecIndex: calls of one MilvusMinHashLSHService            *)

Min(a, b) == IF a < b THEN a ELSE b

\* the text of the document with the given doc_id
IndexText(doc_id) == IF doc_id % 2 = 1 THEN <<"a">> ELSE <<"a", " ", "b">>

\* the Documents handed to insert_documents, built as the callers build them
IndexDocument(doc_id) ==
    CHOOSE d \in FromText(doc_id, "doc", IndexText(doc_id), service.MINHASH_DIM) :
        TRUE

IndexDocuments == {IndexDocument(doc_id) : doc_id \in 1..MaxDocs}

\* the distances the server reports: 0.0625, 0.3332 and 0.3334
DistancePool == {Float(1, 16), Float(3332, 10000), Float(3334, 10000)}

\* the lists of at most limit hits over the records of view: each record
\* at most once, in any order, each with the distance the server computed
HitLists(view, limit) ==
    {[i \in DOMAIN place |-> Hit(view[place[i]], distance[i])] :
        <<place, distance>> \in
            UNION {{pd \in [1..k -> DOMAIN view] \X [1..k -> DistancePool] :
                       \A i, j \in 1..k : i # j => pd[1][i] # pd[1][j]} :
                   k \in 0..Min(limit, Len(view))}}

\* how many of the rows a search may be answered from.  Under consistency
\* level Strong the server answers from every record written before the
\* search; under Bounded from the records its searching side has consumed,
\* which may be behind the writes by its staleness window: the records older
\* than the window, with or without the later ones.
Views(consistency_level) ==
    IF consistency_level = "Strong" THEN {Len(rows)}
    ELSE {visible, Len(rows)}

\* what client.search may answer from the first n rows: one list of hits
\* for each query of data
ClientSearch(data, limit, n) ==
    {[q \in DOMAIN data |-> hits] : hits \in HitLists(SubSeq(rows, 1, n), limit)}

InitIndex ==
    /\ byteorder = "little"
    /\ service \in {Service("docs", minhash_dim, hash_bit_width) :
                        minhash_dim \in 1..MaxPerm,
                        hash_bit_width \in HashBitWidths}
    /\ collection \in BOOLEAN
    /\ rows = <<>>
    /\ called = "__init__"
    /\ results = None
    /\ output = None
    /\ requests = <<>>
    /\ visible = 0
    /\ seen = 0
    /\ vectors = <<>>
    /\ SignatureIdle
    /\ JaccardIdle
    /\ DocumentIdle
    /\ FilterIdle
    /\ MarkdownIdle
    /\ ThreadsIdle
    /\ SlicerIdle
    /\ ImagesIdle

\* a drop_collection that only prints
DroppedNever(exists, fault) == FALSE

\* whether drop_collection drops: has_collection answered that the
\* collection exists and client.drop_collection did not fail
Dropped(exists, fault) == exists /\ fault = ""

\* an insert_documents that flushes whatever became of the insert
InsertRequestsFlushAlways(insert_error, flush_error) ==
    <<Request("insert", insert_error), Request("flush", flush_error)>>

\* the calls of the client insert_documents makes: an exception of
\* client.insert ends it before client.flush
InsertRequests(insert_error, flush_error) ==
    IF insert_error # ""
    THEN <<Request("insert", insert_error)>>
    ELSE <<Request("insert", ""), Request("flush", flush_error)>>

\* drop_collection(); fault names the call of the client that fails for a
\* reason of the server or the connection ("" for none)
DropCollection(fault) ==
    LET dropped == Dropped(collection, fault)
    IN  /\ fault = "drop_collection" => collection
        /\ called' = "drop_collection"
        /\ requests' =
               IF fault = "has_collection"
               THEN <<Request("has_collection", "unavailable")>>
               ELSE IF collection
               THEN <<Request("has_collection", ""),
                      Request("drop_collection",
                              IF fault = "" THEN "" ELSE "unavailable")>>
               ELSE <<Request("has_collection", "")>>
        /\ collection' = (collection /\ ~dropped)
        /\ rows' = (IF dropped THEN <<>> ELSE rows)
        /\ visible' = Len(rows')
        /\ results' = None
        /\ seen' = 0
        /\ vectors' = <<>>
        /\ output' = (IF fault = "" THEN None ELSE Raised("MilvusException"))
        /\ UNCHANGED <<byteorder, sigVars, jacVars, docVars, filterVars,
                       markdownVars, service,
                   threadVars,
                   slicerVars,
                   imageVars>>

\* create_collection(): the schema and the index parameters are built in the
\* client, client.create_collection is the one call to the server; it
\* creates, indexes and loads the collection, and leaves a collection of
\* this name and schema as it is
CreateCollection(fault) ==
    /\ called' = "create_collection"
    /\ requests' = <<Request("create_collection",
                             IF fault = "" THEN "" ELSE "unavailable")>>
    /\ collection' = (collection \/ fault = "")
    /\ results' = None
    /\ seen' = 0
    /\ vectors' = <<>>
    /\ output' = (IF fault = "" THEN None ELSE Raised("MilvusException"))
    /\ visible' = Len(rows)
    /\ UNCHANGED <<byteorder, sigVars, jacVars, docVars, filterVars,
                   markdownVars, service, rows,
                   threadVars,
                   slicerVars,
                   imageVars>>

\* whether the server takes these vectors for the field minhash_signature:
\* a BINARY_VECTOR of dim bits holds dim / 8 bytes
FitsField(data) ==
    \A i \in DOMAIN data : 8 * Len(data[i]) = service.VECTOR_DIM

\* insert_documents(docs): client.insert and then client.flush.  The server
\* stores every record it is sent (it does not compare primary keys), and
\* refuses the insert when the collection does not exist or a vector has
\* not the dimension of the field.  The staleness
\* window is shorter than the time between two calls that are not an insert
\* and the search right after it: the records of earlier calls are older
\* than the window, those of this call are not.
InsertDocuments(docs, fault) ==
    LET insert_error ==
            IF fault = "insert" THEN "unavailable"
            ELSE IF ~collection THEN "collection not found"
            ELSE IF ~FitsField(Signatures(docs)) THEN "dimension mismatch"
            ELSE ""
        flush_error == IF fault = "flush" THEN "unavailable" ELSE ""
    IN  /\ Len(rows) + Len(docs) <= MaxRows
        /\ fault = "flush" => collection
        /\ called' = "insert_documents"
        /\ requests' = InsertRequests(insert_error, flush_error)
        /\ vectors' = Signatures(docs)
        /\ rows' = (IF insert_error = "" THEN rows \o InsertData(docs)
                    ELSE rows)
        /\ results' = None
        /\ seen' = 0
        /\ output' = (IF insert_error = "" /\ flush_error = "" THEN None
                      ELSE Raised("MilvusException"))
        /\ visible' = Len(rows)
        /\ UNCHANGED <<byteorder, sigVars, jacVars, docVars, filterVars,
                       markdownVars, service, collection,
                   threadVars,
                   slicerVars,
                   imageVars>>

\* search(query_sig, top_k, refine_k).  The server refuses a search of a
\* collection that does not exist, a query vector that has not the dimension
\* of the field and a limit that is not positive.  A
\* search changes nothing in the collection, so a second search in a row
\* meets the state of the first: the model takes the next search after
\* another call.
Search(query_sig, top_k, refine_k, fault) ==
    LET error ==
            IF fault = "search" THEN "unavailable"
            ELSE IF ~collection THEN "collection not found"
            ELSE IF ~FitsField(<<query_sig>>) THEN "dimension mismatch"
            ELSE IF top_k <= 0 THEN "invalid limit"
            ELSE ""
    IN  /\ called # "search"
        /\ called' = "search"
        /\ requests' = <<[call |-> "search", error |-> error,
                          limit |-> top_k, consistency_level |-> "Bounded"]>>
        /\ vectors' = <<query_sig>>
        /\ IF error = ""
           THEN \E n \in Views("Bounded") :
                    \E answer \in ClientSearch(<<query_sig>>, top_k, n) :
                        /\ results' = Returned(answer)
                        /\ output' = SearchReturn(answer)
                        /\ seen' = n
           ELSE /\ results' = Raised("MilvusException")
                /\ output' = results'
                /\ seen' = 0
        /\ visible' = Len(rows)
        /\ UNCHANGED <<byteorder, sigVars, jacVars, docVars, filterVars,
                       markdownVars, service, collection, rows,
                   threadVars,
                   slicerVars,
                   imageVars>>

\* the lists of documents handed to insert_documents
Batches == SeqsUpTo(IndexDocuments, MaxDocs) \ {<<>>}

NextIndex ==
    \/ \E fault \in {"", "has_collection", "drop_collection"} :
           DropCollection(fault)
    \/ \E fault \in {"", "create_collection"} : CreateCollection(fault)
    \/ \E docs \in Batches, fault \in {"", "insert", "flush"} :
           InsertDocuments(docs, fault)
    \/ \E top_k \in 0..DefaultTopK, fault \in {"", "search"} :
           Search(IndexDocument(1).minhash_signature, top_k, DefaultRefineK,
                  fault)

SpecIndex == InitIndex /\ [][NextIndex]_vars

\* a search that returned its list
SearchReturned == called = "search" /\ output.kind = "list"

\* the one-to-one assignments of the places of the returned list to the
\* places of the hits
Placements(n) ==
    {place \in [1..n -> 1..n] : \A a, b \in 1..n : a # b => place[a] # place[b]}

\* C10: whatever list of hits the backend answered, the list search returns
\* holds exactly those hits, its similarities never increase from one entry
\* to the next, and two entries of equal similarity stand in the order in
\* which the backend returned their hits.
C10_SortedStable ==
    SearchReturned =>
        LET hits == results.list[1]
            out == output.list
        IN  /\ Len(out) = Len(hits)
            /\ \A a, b \in DOMAIN out :
                   a < b => ~FloatGreater(out[b].similarity, out[a].similarity)
            /\ \E place \in Placements(Len(out)) :
                   /\ \A a \in DOMAIN out :
                          /\ out[a].doc_id = hits[place[a]].entity.doc_id
                          /\ out[a].distance = hits[place[a]].distance
                   /\ \A a, b \in DOMAIN out :
                          (a < b /\ out[a].similarity = out[b].similarity)
                              => place[a] < place[b]

\* a search whose three hits came back with the smallest similarity first
\* and with two hits of different distance but equal rounded similarity
C10_Witness ==
    /\ SearchReturned
    /\ Len(output.list) = 3
    /\ LET hits == results.list[1]
           out == output.list
       IN  /\ FloatGreater(hits[2].distance, hits[1].distance)
           /\ out[1].doc_id # hits[1].entity.doc_id
           /\ out[1].similarity = out[2].similarity
           /\ out[1].distance # out[2].distance
           /\ FloatGreater(out[2].distance, out[1].distance)
           /\ FloatGreater(out[2].similarity, out[3].similarity)

\* a call of the service that raised
RaisedMilvus == output.kind = "MilvusException"

\* C11: a search that starts right after insert_documents has returned is
\* answered from every record of the collection, the inserted ones among
\* them.
C11_SearchSeesInserted ==
    [][(/\ called = "insert_documents"
        /\ output = None
        /\ called' = "search"
        /\ output'.kind = "list") => seen' = Len(rows')]_vars

\* C12: the collection never holds two records with the same doc_id.
C12_UniqueDocIds ==
    \A i, j \in DOMAIN rows : i # j => rows[i].doc_id # rows[j].doc_id

\* C13: insert_documents and search return only while the collection
\* exists and raise while it does not; after a drop_collection that returned
\* the collection does not exist; and only create_collection brings a
\* collection that does not exist into existence.
C13_Lifecycle ==
    /\ [](/\ (called \in {"insert_documents", "search"} /\ ~RaisedMilvus)
              => collection
          /\ (called \in {"insert_documents", "search"} /\ ~collection)
              => RaisedMilvus
          /\ (called = "drop_collection" /\ ~RaisedMilvus) => ~collection
          /\ ~collection => rows = <<>>)
    /\ [][(~collection /\ collection') => called' = "create_collection"]_vars

\* insert_documents raised because a drop_collection had removed the
\* collection
C13_Witness ==
    /\ called = "insert_documents"
    /\ ~collection
    /\ RaisedMilvus
    /\ requests = <<Request("insert", "collection not found")>>

\* C14: a search that the server and the connection did not fail returns a
\* list of at most top_k results, the empty list for top_k = 0.
C14_AtMostTopK ==
    (/\ called = "search"
     /\ requests[1].error \notin {"unavailable", "collection not found"})
        => /\ output.kind = "list"
           /\ Len(output.list) <= requests[1].limit

\* C15: a search with a positive top_k of a collection that exists and holds
\* no record, not failed by the server or the connection, returns the empty
\* list.
C15_EmptyCollection ==
    (/\ called = "search"
     /\ collection
     /\ rows = <<>>
     /\ requests[1].error = "")
        => output = Returned(<<>>)

\* a search of an empty collection that the server answered with one empty
\* list of hits
C15_Witness ==
    /\ called = "search"
    /\ collection
    /\ rows = <<>>
    /\ requests[1].limit = DefaultTopK
    /\ results = Returned(<< <<>> >>)
    /\ output = Returned(<<>>)

\* C16: no call of the service makes the same call of the client twice; a
\* call of the client that failed is the last one the service made and the
\* service raised its exception; a flush is only made after an insert that
\* did not fail.
C16_SurfacedNotRetried ==
    /\ \A i, j \in DOMAIN requests :
           i # j => requests[i].call # requests[j].call
    /\ \A i \in DOMAIN requests :
           requests[i].error # "" => (i = Len(requests) /\ RaisedMilvus)
    /\ \A i \in DOMAIN requests :
           requests[i].call = "flush"
               => \E j \in 1..(i - 1) :
                      requests[j].call = "insert" /\ requests[j].error = ""
    /\ (RaisedMilvus /\ called # "__init__")
           => requests[Len(requests)].error # ""

\* an insert_documents whose client.insert failed on the connection
C16_Witness ==
    /\ called = "insert_documents"
    /\ collection
    /\ requests = <<Request("insert", "unavailable")>>
    /\ RaisedMilvus

\* 1 - x of a float 0 <= x <= 1
OneMinus(x) == Float(x.den - x.num, x.den)

\* C24: every entry of the list search returns is one hit of the answer
\* with its distance unchanged, and its similarity is 1 - distance rounded
\* to 3 decimals, a value between 0 and 1.
C24_SimilarityIsOneMinusDistance ==
    SearchReturned =>
        \A i \in DOMAIN output.list :
            LET entry == output.list[i]
            IN  /\ \E h \in DOMAIN results.list[1] :
                       /\ results.list[1][h].id = entry.doc_id
                       /\ results.list[1][h].distance = entry.distance
                /\ entry.similarity = Round(OneMinus(entry.distance), 3)
                /\ 0 <= entry.similarity.num
                /\ entry.similarity.num <= entry.similarity.den

\* C25: whatever hash_bit_width the service was constructed with, every
\* signature insert_documents or search sends to the backend has as many
\* bits as the vector field, MINHASH_DIM * HASH_BIT_WIDTH; the documents and
\* the query are built with num_perm = MINHASH_DIM.
C25_SignatureFitsVectorField ==
    called \in {"insert_documents", "search"} =>
        \A i \in DOMAIN vectors :
            8 * Len(vectors[i]) = service.MINHASH_DIM * service.HASH_BIT_WIDTH

-----------------------------------------------------------------------------
(* Specification SpecMarkdown: one call of split_by_jieba_v2 on a Markdown  *)
(* table, image or link                                                     *)

\* the texts of table cells
CellTexts == {<<"a">>, <<"1", ".">>, <<"U+4E2D">>, <<"-">>}

\* a table row of the given cells, with or without the pipes at its ends
RowLine(cells, edges) ==
    IF edges
    THEN <<"|", " ">> \o Join(<<" ", "|", " ">>, cells) \o <<" ", "|">>
    ELSE Join(<<" ", "|", " ">>, cells)

TableRows ==
    {[kind |-> "row", cells |-> cells, line |-> RowLine(cells, edges)] :
        cells \in [1..2 -> CellTexts], edges \in BOOLEAN}

\* separator rows: pipes, dashes and colons only
Separators ==
    {[kind |-> "separator", cells |-> <<>>, line |-> line] :
        line \in {<<"|", "-", "-", "-", "|", "-", "-", "-", "|">>,
                  <<"-", "-", "-", " ", "|", " ", "-", "-", "-">>,
                  <<"|", ":", "-", "|", "-", ":", "|">>,
                  <<"|", "-", "-", "-", "|">>}}

Tables ==
    {[kind |-> "table", lines |-> lines,
      text |-> Join(<<"\n">>, [i \in DOMAIN lines |-> lines[i].line])] :
        lines \in SeqsUpTo(TableRows \cup Separators, MaxLines) \ {<<>>}}

\* alt and link texts, and link destinations
Alts == {<<"a">>, <<"a", " ", "b">>, <<"U+4E2D">>}
Urls == {<<"b">>, <<"b", ":", "/", "1", ".", "b">>,
         <<"b", "(", "1", ")", "2">>}

Markups ==
    {[kind |-> kind, alt |-> alt, url |-> url,
      text |-> (IF kind = "image" THEN <<"!">> ELSE <<>>)
               \o <<"[">> \o alt \o <<"]", "(">> \o url \o <<")">>] :
        kind \in {"image", "link"}, alt \in Alts, url \in Urls}

\* the characters of the sentences: a letter, a digit, the decimal point,
\* the apostrophe and the blank
SentenceAlphabet == {"a", "1", ".", "'", " "}

\* the texts of at most MaxContent characters that hold no ideograph, no
\* line break and nothing the Markdown cleaning changes
Sentences ==
    {[kind |-> "sentence", text |-> text] :
        text \in {t \in SeqsUpTo(SentenceAlphabet, MaxContent) :
                     CleanMarkdown(CleanTables(t)) = t}}

InitMarkdown ==
    /\ byteorder = "little"
    /\ markdown \in Tables \cup Markups \cup Sentences
    /\ md_tokens = None
    /\ SignatureIdle
    /\ JaccardIdle
    /\ DocumentIdle
    /\ FilterIdle
    /\ IndexIdle
    /\ ThreadsIdle
    /\ SlicerIdle
    /\ ImagesIdle

\* Document.split_by_jieba_v2(markdown.text)
SplitMarkdown ==
    /\ md_tokens = None
    /\ md_tokens' = Returned(SplitByJiebaV2(markdown.text))
    /\ UNCHANGED <<byteorder, sigVars, jacVars, docVars, filterVars, indexVars,
                   markdown,
                   threadVars,
                   slicerVars,
                   imageVars>>

NextMarkdown == SplitMarkdown

SpecMarkdown == InitMarkdown /\ [][NextMarkdown]_vars

\* the tokens of a text that holds no Markdown: lines 141-161
PlainTokens(text) == AllSentenceTokens(SplitClauses(text))

\* the tokens of the cells of the rows of a table, in their order
CellTokens(lines) ==
    Concat([i \in DOMAIN lines |->
               Concat([c \in DOMAIN lines[i].cells |->
                          PlainTokens(lines[i].cells[c])])])

\* C17: the tokens of a Markdown table are the tokens of the cells of its
\* rows, a separator row adds none, and no token holds a pipe or a dash.
C17_TableCellsOnly ==
    (md_tokens # None /\ markdown.kind = "table") =>
        /\ md_tokens.list = CellTokens(markdown.lines)
        /\ \A i \in DOMAIN md_tokens.list :
               Range(md_tokens.list[i]) \cap {"|", "-"} = {}

\* C18: the tokens of an image or a link are the tokens of its alt or link
\* text.
C18_AltTextOnly ==
    (md_tokens # None /\ markdown.kind \in {"image", "link"}) =>
        md_tokens.list = PlainTokens(markdown.alt)

\* C26: the tokens of a text without ideograph, line break and Markdown are
\* the matches of the token pattern in the text from left to right, each as
\* long as the pattern allows: a number with one decimal point is one token
\* and a word with one apostrophe inside is one token.
C26_MaximalMatches ==
    (md_tokens # None /\ markdown.kind = "sentence") =>
        md_tokens.list = FindAllTokens(markdown.text, 1)

-----------------------------------------------------------------------------
(* Specification SpecThreads: threads that call insert_documents, search   *)
(* and filter_by_jaccard_similarity at the same time, on one service and   *)
(* on the same Document objects.  A step is one statement of a call that   *)
(* another thread can see or disturb: the start of a list, one turn of a   *)
(* loop, one call of the client.                                           *)

\* most threads
MaxThreads == 2

Threads == 1..MaxThreads

\* the calls of the threads; a list of documents is a list of references to
\* the objects
ThreadCalls ==
    {[op |-> "insert_documents", docs |-> <<1>>],
     [op |-> "insert_documents", docs |-> <<2, 1>>],
     [op |-> "search", query_sig |-> IndexDocument(1).minhash_signature,
      top_k |-> 1],
     [op |-> "filter_by_jaccard_similarity", text_content |-> IndexText(1),
      docs |-> <<1, 2>>, threshold |-> Float(1, 2)]}

\* whether the call is handed a list of documents
TakesDocuments(c) ==
    c.op \in {"insert_documents", "filter_by_jaccard_similarity"}

\* one list kept on the instance for all calls
BufferOfInstance(t) == 0

\* where the list a call builds lives: insert_data and filtered_documents
\* are locals, one for each call; buffers[0] stands for a list kept on the
\* instance, which the code has not
Buffer(t) == t

\* a loop that removes from the list passed in what it does not keep
RemoveInPlace(list, p, keep) ==
    IF keep THEN list
    ELSE [i \in 1..(Len(list) - 1) |-> IF i < p THEN list[i] ELSE list[i + 1]]

\* the list passed in after one turn of the loop of the filter: the turn
\* appends to filtered_documents and writes nothing else
PassedAfter(list, p, keep) == list

InitThreads ==
    /\ byteorder = "little"
    /\ service = Service("docs", MaxPerm, DefaultHashBitWidth)
    /\ collection = TRUE
    /\ rows = <<>>
    /\ called = "__init__"
    /\ results = None
    /\ output = None
    /\ requests = <<>>
    /\ visible = 0
    /\ seen = 0
    /\ vectors = <<>>
    /\ objects = [i \in 1..MaxDocs |-> IndexDocument(i)]
    /\ invoked \in [Threads -> ThreadCalls]
    /\ passed = [t \in Threads |->
                    IF TakesDocuments(invoked[t]) THEN invoked[t].docs ELSE <<>>]
    /\ pc = [t \in Threads |-> "start"]
    /\ buffers = [b \in 0..MaxThreads |-> <<>>]
    /\ cursor = [t \in Threads |-> 1]
    /\ sent = [t \in Threads |-> <<>>]
    /\ returned = [t \in Threads |-> None]
    /\ SignatureIdle
    /\ JaccardIdle
    /\ DocumentIdle
    /\ FilterIdle
    /\ MarkdownIdle
    /\ SlicerIdle
    /\ ImagesIdle

\* the first statement of the call: insert_data = [], filtered_documents =
\* [] after the query is signed, search_params for the search
Begin(t) ==
    /\ pc[t] = "start"
    /\ IF invoked[t].op = "search"
       THEN /\ pc' = [pc EXCEPT ![t] = "client.search"]
            /\ UNCHANGED buffers
       ELSE /\ pc' = [pc EXCEPT ![t] = "for"]
            /\ buffers' = [buffers EXCEPT ![Buffer(t)] = <<>>]
    /\ UNCHANGED <<invoked, objects, passed, cursor, sent, returned>>
    /\ UNCHANGED <<byteorder, sigVars, jacVars, docVars, filterVars, indexVars,
                   markdownVars,
                   slicerVars,
                   imageVars>>

\* one turn of the loop of insert_documents, or its end
ForDocument(t) ==
    /\ pc[t] = "for"
    /\ invoked[t].op = "insert_documents"
    /\ IF cursor[t] <= Len(passed[t])
       THEN /\ buffers' =
                   [buffers EXCEPT ![Buffer(t)] =
                       Append(@, InsertData(<<objects[passed[t][cursor[t]]]>>)[1])]
            /\ cursor' = [cursor EXCEPT ![t] = @ + 1]
            /\ UNCHANGED pc
       ELSE /\ pc' = [pc EXCEPT ![t] = "client.insert"]
            /\ UNCHANGED <<buffers, cursor>>
    /\ UNCHANGED <<invoked, objects, passed, sent, returned>>
    /\ UNCHANGED <<byteorder, sigVars, jacVars, docVars, filterVars, indexVars,
                   markdownVars,
                   slicerVars,
                   imageVars>>

\* self.client.insert(self.collection_name, insert_data)
ClientInsert(t) ==
    /\ pc[t] = "client.insert"
    /\ sent' = [sent EXCEPT ![t] =
                   Append(@, [call |-> "insert", data |-> buffers[Buffer(t)]])]
    /\ pc' = [pc EXCEPT ![t] = "client.flush"]
    /\ UNCHANGED <<invoked, objects, passed, buffers, cursor, returned>>
    /\ UNCHANGED <<byteorder, sigVars, jacVars, docVars, filterVars, indexVars,
                   markdownVars,
                   slicerVars,
                   imageVars>>

\* self.client.flush(self.collection_name), and the return
ClientFlush(t) ==
    /\ pc[t] = "client.flush"
    /\ sent' = [sent EXCEPT ![t] = Append(@, [call |-> "flush"])]
    /\ pc' = [pc EXCEPT ![t] = "done"]
    /\ UNCHANGED <<invoked, objects, passed, buffers, cursor, returned>>
    /\ UNCHANGED <<byteorder, sigVars, jacVars, docVars, filterVars, indexVars,
                   markdownVars,
                   slicerVars,
                   imageVars>>

\* self.client.search(...) and the rest of search, which works on the
\* answer and on its local output; the backend may hold any of the objects
ClientSearchCall(t) ==
    /\ pc[t] = "client.search"
    /\ \E hits \in HitLists(InsertData(objects), invoked[t].top_k) :
           returned' = [returned EXCEPT ![t] = SearchReturn(<<hits>>)]
    /\ sent' = [sent EXCEPT ![t] =
                   Append(@, [call |-> "search",
                              data |-> <<invoked[t].query_sig>>,
                              limit |-> invoked[t].top_k])]
    /\ pc' = [pc EXCEPT ![t] = "done"]
    /\ UNCHANGED <<invoked, objects, passed, buffers, cursor>>
    /\ UNCHANGED <<byteorder, sigVars, jacVars, docVars, filterVars, indexVars,
                   markdownVars,
                   slicerVars,
                   imageVars>>

\* one turn of the loop of filter_by_jaccard_similarity, or its end; the
\* calculator has the num_perm of the service
ForCandidate(t) ==
    /\ pc[t] = "for"
    /\ invoked[t].op = "filter_by_jaccard_similarity"
    /\ IF cursor[t] <= Len(passed[t])
       THEN LET input_signature ==
                    GenerateMinhashSignature(Split(invoked[t].text_content),
                                             service.MINHASH_DIM)
                candidate == objects[passed[t][cursor[t]]]
                sim == CalculateJaccardSimilarity(input_signature,
                                                  candidate.minhash_signature)
                keep == sim.kind = "float"
                            /\ ExceedsThreshold(sim, invoked[t].threshold)
            IN  IF sim.kind # "float"
                THEN /\ returned' = [returned EXCEPT ![t] = sim]
                     /\ pc' = [pc EXCEPT ![t] = "done"]
                     /\ UNCHANGED <<buffers, passed, cursor>>
                ELSE /\ buffers' =
                            [buffers EXCEPT ![Buffer(t)] =
                                IF keep THEN Append(@, passed[t][cursor[t]])
                                ELSE @]
                     /\ passed' = [passed EXCEPT ![t] =
                                      PassedAfter(@, cursor[t], keep)]
                     /\ cursor' = [cursor EXCEPT ![t] = @ + 1]
                     /\ UNCHANGED <<pc, returned>>
       ELSE /\ returned' = [returned EXCEPT ![t] = Returned(buffers[Buffer(t)])]
            /\ pc' = [pc EXCEPT ![t] = "done"]
            /\ UNCHANGED <<buffers, passed, cursor>>
    /\ UNCHANGED <<invoked, objects, sent>>
    /\ UNCHANGED <<byteorder, sigVars, jacVars, docVars, filterVars, indexVars,
                   markdownVars,
                   slicerVars,
                   imageVars>>

NextThreads ==
    \E t \in Threads :
        \/ Begin(t)
        \/ ForDocument(t)
        \/ ClientInsert(t)
        \/ ClientFlush(t)
        \/ ClientSearchCall(t)
        \/ ForCandidate(t)

SpecThreads == InitThreads /\ [][NextThreads]_vars

\* the calls of the client a call of the service makes when it runs alone
RequestsAlone(c) ==
    IF c.op = "insert_documents"
    THEN <<[call |-> "insert",
            data |-> InsertData([i \in DOMAIN c.docs |->
                                    IndexDocument(c.docs[i])])],
           [call |-> "flush"]>>
    ELSE IF c.op = "search"
    THEN <<[call |-> "search", data |-> <<c.query_sig>>, limit |-> c.top_k]>>
    ELSE <<>>

\* C21: while the threads run, the fields of the service are those it was
\* constructed with, no list is kept on the instance, the Document objects
\* are as they were built, and the calls of the client a thread has made
\* are the first of those its call makes when it runs alone, all of them
\* when the call is done.
C21_NoLockNeeded ==
    /\ service = Service("docs", MaxPerm, DefaultHashBitWidth)
    /\ buffers[0] = <<>>
    /\ objects = [i \in 1..MaxDocs |-> IndexDocument(i)]
    /\ \A t \in Threads :
           /\ Len(sent[t]) <= Len(RequestsAlone(invoked[t]))
           /\ sent[t] = SubSeq(RequestsAlone(invoked[t]), 1, Len(sent[t]))
           /\ pc[t] = "done" => sent[t] = RequestsAlone(invoked[t])

\* two insert_documents in their loops at the same time, each with a part
\* of its list built, and a third call, if any, done
C21_Witness ==
    /\ invoked[1].op = "insert_documents"
    /\ invoked[2].op = "insert_documents"
    /\ invoked[1].docs # invoked[2].docs
    /\ pc[1] = "client.flush"
    /\ pc[2] = "for"
    /\ cursor[2] = 2
    /\ buffers[1] # <<>>
    /\ buffers[2] # <<>>
    /\ buffers[1] # buffers[2]

\* C22: no step of insert_documents or of filter_by_jaccard_similarity,
\* which calls calculate_jaccard_similarity, changes a field of a Document
\* or the list of documents the call was passed.
C22_DocumentsUnchanged ==
    /\ objects = [i \in 1..MaxDocs |-> IndexDocument(i)]
    /\ \A t \in Threads :
           TakesDocuments(invoked[t]) => passed[t] = invoked[t].docs

\* a filter that kept one document of two and an insert_documents of the
\* same objects, both done
C22_Witness ==
    /\ invoked[1].op = "filter_by_jaccard_similarity"
    /\ invoked[2].op = "insert_documents"
    /\ pc[1] = "done"
    /\ pc[2] = "done"
    /\ returned[1].kind = "list"
    /\ Len(returned[1].list) = 1
    /\ Len(passed[1]) = 2
    /\ Len(sent[2][1].data) = 2

-----------------------------------------------------------------------------
(* MarkdownSlicer (src/test/markdown_splitter.py).  A text is a sequence   *)
(* of characters, a character outside ASCII is written U+hex.              *)

\* __init__
MarkdownSlicer(max_chars, add_filename) ==
    [max_chars |-> max_chars, add_filename |-> add_filename]

\* self.table_line_re.match(line): ^\s*\|.*\|\s*$
TableLineRe(line) ==
    LET inner == Strip(line)
    IN  /\ Len(inner) >= 2
        /\ inner[1] = "|"
        /\ inner[Len(inner)] = "|"

\* self.heading_re.match(line): ^(#{1,6})\s+(.*), with len(group(1)) and
\* group(2).strip()
HeadingRe(line) ==
    LET n == RunLength(line, {"#"}, 1)
    IN  IF n >= 1 /\ n <= 6 /\ n < Len(line) /\ line[n + 1] \in Whitespace
        THEN [kind |-> "match", level |-> n, title_text |-> Strip(From(line, n + 1))]
        ELSE None

\* f"> 文件名: {filename}", f"> 父标题: {parent_title}" and
\* f"> 当前标题: {current_title}"
FilenameLine(filename) ==
    <<">", " ", "U+6587", "U+4EF6", "U+540D", ":", " ">> \o filename

ParentTitleLine(parent_title) ==
    <<">", " ", "U+7236", "U+6807", "U+9898", ":", " ">> \o parent_title

CurrentTitleLine(current_title) ==
    <<">", " ", "U+5F53", "U+524D", "U+6807", "U+9898", ":", " ">>
        \o current_title

\* _build_slice(lines, filename, parent_title, current_title)
BuildSlice(self, lines, filename, parent_title, current_title) ==
    LET header_lines ==
            (IF self.add_filename /\ filename # <<>>
             THEN <<FilenameLine(filename)>> ELSE <<>>)
            \o (IF parent_title # <<>>
                THEN <<ParentTitleLine(parent_title)>> ELSE <<>>)
            \o (IF current_title # <<>>
                THEN <<CurrentTitleLine(current_title)>> ELSE <<>>)
            \o << <<>> >>
    IN  Join(<<"\n">>, header_lines \o lines)

\* lines 58-62, 90-94 and 107-109: the current slice built and appended,
\* when it holds something
Cut(self, filename, s) ==
    IF s.current_slice = <<>> THEN s
    ELSE [s EXCEPT
             !.slices = Append(@, BuildSlice(self, s.current_slice, filename,
                                             s.parent_title, s.current_title)),
             !.current_slice = <<>>,
             !.current_len = 0]

\* the number of table lines in a row from line i on: the loop of lines
\* 74-76
RECURSIVE TableRun(_, _)
TableRun(lines, i) ==
    IF i > Len(lines) \/ ~TableLineRe(lines[i]) THEN 0
    ELSE 1 + TableRun(lines, i + 1)

\* the loop of lines 42-104 from line i on (lines[i - 1] in the code); s
\* holds the locals slices, current_slice, current_len, parent_title and
\* current_title.  An image line and a paragraph line are handled by the
\* same statements (lines 80-87).
RECURSIVE SliceLoop(_, _, _, _, _)
SliceLoop(self, lines, filename, i, s) ==
    IF i > Len(lines) THEN s
    ELSE
    LET line == lines[i]
        heading_match == HeadingRe(line)
    IN  IF heading_match.kind = "match"
        THEN IF heading_match.level = 2
             THEN SliceLoop(self, lines, filename, i + 1,
                            [s EXCEPT !.parent_title = heading_match.title_text])
             ELSE LET cut == Cut(self, filename, s)
                  IN  SliceLoop(self, lines, filename, i + 1,
                          [cut EXCEPT
                              !.current_title = heading_match.title_text,
                              !.current_slice = Append(@, line \o <<"\n">>),
                              !.current_len = @ + Len(line) + 1])
        ELSE
        LET n == IF TableLineRe(line) THEN TableRun(lines, i) ELSE 1
            block_text == Join(<<"\n">>, SubSeq(lines, i, i + n - 1)) \o <<"\n">>
            cut == IF s.current_len + Len(block_text) > self.max_chars
                   THEN Cut(self, filename, s) ELSE s
        IN  IF Len(block_text) > self.max_chars
            THEN SliceLoop(self, lines, filename, i + n,
                     [cut EXCEPT
                         !.slices = Append(@, BuildSlice(self, <<block_text>>,
                                                         filename, cut.parent_title,
                                                         cut.current_title))])
            ELSE SliceLoop(self, lines, filename, i + n,
                     [cut EXCEPT
                         !.current_slice = Append(@, block_text),
                         !.current_len = @ + Len(block_text)])

\* MarkdownSlicer.slice(md_text, filename)
Slice(self, text, filename) ==
    LET s == SliceLoop(self, SplitLines(text), filename, 1,
                       [slices |-> <<>>, current_slice |-> <<>>,
                        current_len |-> 0, parent_title |-> <<>>,
                        current_title |-> <<>>])
    IN  Cut(self, filename, s).slices

-----------------------------------------------------------------------------
(* Specification SpecSlicer: one call of MarkdownSlicer.slice on every     *)
(* text of at most MaxSliceLines lines                                     *)

\* most lines of the text
MaxSliceLines == 3

\* the lines: a paragraph, a table line, two headings of level 2, one of
\* level 1 and one of level 3, an image
SliceLines ==
    {<<"a">>,
     <<"|", "b", "|">>,
     <<"#", "#", " ", "P">>,
     <<"#", "#", " ", "Q">>,
     <<"#", " ", "T">>,
     <<"#", "#", "#", " ", "S">>,
     <<"!", "[", "]", "(", ")">>}

\* the texts: lines with a line break between them
SliceTexts ==
    {Join(<<"\n">>, lines) : lines \in SeqsUpTo(SliceLines, MaxSliceLines)}

\* the values of max_chars: below the length of the shortest line with its
\* line break, enough for two lines, enough for every text
SliceMaxChars == {1, 6, 100}

InitSlicer ==
    /\ byteorder = "little"
    /\ slicer \in {MarkdownSlicer(max_chars, add_filename) :
                      max_chars \in SliceMaxChars, add_filename \in BOOLEAN}
    /\ md_text \in SliceTexts
    /\ md_filename \in {<<>>, <<"f">>}
    /\ md_slices = None
    /\ SignatureIdle
    /\ JaccardIdle
    /\ DocumentIdle
    /\ FilterIdle
    /\ IndexIdle
    /\ MarkdownIdle
    /\ ThreadsIdle
    /\ ImagesIdle

\* slicer.slice(md_text, filename)
SliceCall ==
    /\ md_slices = None
    /\ md_slices' = Returned(Slice(slicer, md_text, md_filename))
    /\ UNCHANGED <<byteorder, sigVars, jacVars, docVars, filterVars, indexVars,
                   markdownVars, threadVars, slicer, md_text, md_filename,
                   imageVars>>

NextSlicer == SliceCall

SpecSlicer == InitSlicer /\ [][NextSlicer]_vars

-----------------------------------------------------------------------------
(* Properties of MarkdownSlicer.slice, under SpecSlicer                    *)

\* the lines of a slice before its first empty line, and those after it
SliceHeader(text) ==
    LET lines == SplitLines(text)
        k == CHOOSE i \in DOMAIN lines :
                 lines[i] = <<>> /\ \A j \in 1..(i - 1) : lines[j] # <<>>
    IN  SubSeq(lines, 1, k - 1)

SliceContent(text) ==
    LET lines == SplitLines(text)
    IN  SubSeq(lines, Len(SliceHeader(text)) + 2, Len(lines))

\* the title a header gives behind a prefix, the empty text when it has no
\* such line
TitleIn(header, prefix) ==
    LET found == {i \in DOMAIN header : StartsWithAt(header[i], prefix, 1)}
    IN  IF found = {} THEN <<>>
        ELSE From(header[CHOOSE i \in found : TRUE], Len(prefix) + 1)

InputLines == SplitLines(md_text)

IsHeading(line) == HeadingRe(line).kind = "match"

IsParentHeading(line) == IsHeading(line) /\ HeadingRe(line).level = 2

\* the places in the input of the lines that are no heading of level 2
KeptPlaces ==
    SelectSeq([i \in DOMAIN InputLines |-> i],
              LAMBDA i : ~IsParentHeading(InputLines[i]))

\* the lines of a slice's content that are not empty
Filled(text) == SelectSeq(SliceContent(text), LAMBDA line : line # <<>>)

\* how many lines that are not empty the slices before the k-th hold
RECURSIVE FilledBefore(_)
FilledBefore(k) ==
    IF k = 1 THEN 0
    ELSE FilledBefore(k - 1) + Len(Filled(md_slices.list[k - 1]))

\* the place in the input of the first content line of the k-th slice
FirstPlace(k) == KeptPlaces[FilledBefore(k) + 1]

\* the title of the last heading before place i, or at it, that satisfies
\* wanted; the empty text when there is none
LastTitle(i, wanted(_)) ==
    LET found == {j \in 1..i : wanted(InputLines[j])}
    IN  IF found = {} THEN <<>>
        ELSE HeadingRe(InputLines[CHOOSE j \in found :
                                      \A h \in found : h <= j]).title_text

IsSectionHeading(line) == IsHeading(line) /\ HeadingRe(line).level # 2

\* the current title of every slice is the title of the last heading of a
\* level other than 2 at or before its first content line
CurrentTitleRight ==
    md_slices # None =>
        \A k \in DOMAIN md_slices.list :
            TitleIn(SliceHeader(md_slices.list[k]), CurrentTitleLine(<<>>))
                = LastTitle(FirstPlace(k), IsSectionHeading)

\* C27: the parent title in the header of every slice is the title of the
\* last heading of level 2 before the slice's first content line, and the
\* current title is the title of the heading that opens the slice or, when
\* none opens it, of the last one before it.
C27_TitlesOfSlice ==
    /\ CurrentTitleRight
    /\ md_slices # None =>
           \A k \in DOMAIN md_slices.list :
               TitleIn(SliceHeader(md_slices.list[k]), ParentTitleLine(<<>>))
                   = LastTitle(FirstPlace(k), IsParentHeading)

\* whether the lines are one block: one line, or table lines only
OneBlock(lines) ==
    \/ Len(lines) = 1
    \/ lines # <<>> /\ \A i \in DOMAIN lines : TableLineRe(lines[i])

\* C28: every slice has at most max_chars characters, unless it holds one
\* block only and that block, with its line break, has more.
C28_AtMostMaxChars ==
    md_slices # None =>
        \A k \in DOMAIN md_slices.list :
            \/ Len(md_slices.list[k]) <= slicer.max_chars
            \/ /\ OneBlock(Filled(md_slices.list[k]))
               /\ Len(Join(<<"\n">>, Filled(md_slices.list[k]))) + 1
                      > slicer.max_chars

\* the slice that holds the line at place i of the input, which is no
\* heading of level 2
SliceOfPlace(i) ==
    LET n == Cardinality({j \in 1..i : ~IsParentHeading(InputLines[j])})
    IN  CHOOSE k \in DOMAIN md_slices.list :
            /\ FilledBefore(k) < n
            /\ n <= FilledBefore(k) + Len(Filled(md_slices.list[k]))

\* two table lines in a row in the input are in the same slice
TableRunsWhole ==
    md_slices # None =>
        \A i \in 1..(Len(InputLines) - 1) :
            (TableLineRe(InputLines[i]) /\ TableLineRe(InputLines[i + 1]))
                => SliceOfPlace(i) = SliceOfPlace(i + 1)

\* a heading in the content of a slice is its first line
HeadingsOpen ==
    md_slices # None =>
        \A k \in DOMAIN md_slices.list :
            LET lines == SliceContent(md_slices.list[k])
            IN  \A j \in DOMAIN lines : IsHeading(lines[j]) => j = 1

\* the content lines of the slices from the k-th on
RECURSIVE ContentFrom(_)
ContentFrom(k) ==
    IF k > Len(md_slices.list) THEN <<>>
    ELSE SliceContent(md_slices.list[k]) \o ContentFrom(k + 1)

\* C29: every run of table lines of the input lies in one slice, a slice
\* holds at most one heading, which is its first content line, and the
\* content lines of the slices in their order are the lines of the input
\* without the headings of level 2.
C29_BlocksWhole ==
    /\ TableRunsWhole
    /\ HeadingsOpen
    /\ md_slices # None =>
           ContentFrom(1) = [n \in DOMAIN KeptPlaces |-> InputLines[KeptPlaces[n]]]

-----------------------------------------------------------------------------
(* The replacement of docling's image placeholders:                        *)
(* DoclingWordToMarkdownConverter._replace_images_in_markdown and          *)
(* DoclingHtmlToMarkdownConverter._replace_images_in_markdown_simple.      *)
(* The mapping is the sequence of its entries in the order inserted; the   *)
(* entry [ref |-> i] is the one inserted under the key f"image_{i}".       *)

\* '<!-- image -->'
Placeholder ==
    <<"<", "!", "-", "-", " ", "i", "m", "a", "g", "e", " ", "-", "-", ">">>

\* the places where old starts in text from p on, one after the other and
\* not overlapping: re.finditer and re.findall of a literal
RECURSIVE FindAll(_, _, _)
FindAll(text, old, p) ==
    IF p + Len(old) - 1 > Len(text) THEN <<>>
    ELSE IF StartsWithAt(text, old, p)
         THEN <<p>> \o FindAll(text, old, p + Len(old))
    ELSE FindAll(text, old, p + 1)

\* text[:start] + new + text[end:] for the match of n characters at p
ReplaceAt(text, p, n, new) ==
    SubSeq(text, 1, p - 1) \o new \o From(text, p + n)

\* str.replace(old, new, 1)
ReplaceFirst(text, old, new) ==
    LET found == FindAll(text, old, 1)
    IN  IF found = <<>> THEN text ELSE ReplaceAt(text, found[1], Len(old), new)

\* f"![{alt}]({url})"
ImageMarkdown(alt, url) == <<"!", "[">> \o alt \o <<"]", "(">> \o url \o <<")">>

\* str(i) for i < 10
Str(i) == <<SubSeq(<<"0", "1", "2", "3", "4", "5", "6", "7", "8", "9">>,
                   i + 1, i + 1)[1]>>

\* the loop of lines 681-698 of the Word converter from its turn i on: the
\* matches from the last to the first, each with the entry as far from the
\* end of the mapping
RECURSIVE ReplaceReversed(_, _, _, _)
ReplaceReversed(text, matches, image_infos, i) ==
    IF i >= Len(matches) \/ i >= Len(image_infos) THEN text
    ELSE LET image_info == image_infos[Len(image_infos) - i]
             img_markdown == ImageMarkdown(image_info.caption, image_info.url)
         IN  ReplaceReversed(ReplaceAt(text, matches[Len(matches) - i],
                                       Len(Placeholder), img_markdown),
                             matches, image_infos, i + 1)

\* DoclingWordToMarkdownConverter._replace_images_in_markdown
ReplaceImagesInMarkdown(text, mapping) ==
    IF mapping = <<>> THEN text
    ELSE LET image_infos == mapping
             matches == FindAll(text, Placeholder, 1)
         IN  IF matches = <<>> THEN text
             ELSE ReplaceReversed(text, matches, image_infos, 0)

\* image_mapping[f"image_{i}"], None when the key is not in the mapping
Lookup(mapping, i) ==
    LET found == {k \in DOMAIN mapping : mapping[k].ref = i}
    IN  IF found = {} THEN None ELSE mapping[CHOOSE k \in found : TRUE]

\* the loop of lines 604-613 of the HTML converter from its turn i on, i
\* from 0: the first placeholder left is replaced when the mapping has the
\* key image_i
RECURSIVE ReplaceByIndex(_, _, _, _)
ReplaceByIndex(text, mapping, placeholders, i) ==
    IF i >= placeholders THEN text
    ELSE LET entry == Lookup(mapping, i)
         IN  ReplaceByIndex(
                 IF entry # None
                 THEN ReplaceFirst(text, Placeholder,
                                   ImageMarkdown(<<"U+56FE", "U+7247">> \o Str(i + 1),
                                                 entry.url))
                 ELSE text,
                 mapping, placeholders, i + 1)

\* 'image'
ImageWord == <<"i", "m", "a", "g", "e">>

\* [_\\]
RefSeparators == {"_", "\\"}

\* \d
Digits == {"0", "1", "2", "3", "4", "5", "6", "7", "8", "9"}

\* [a-zA-Z0-9_], of the letters those the model's texts hold
WordChars ==
    Letters \cup {"c", "e", "g", "i", "m", "u", "x", "I"} \cup Digits \cup {"_"}

\* re.findall(r'image[_\\]{1,2}(\d+)', text) from p on: the numbers of the
\* text references
RECURSIVE TextRefs(_, _)
TextRefs(text, p) ==
    LET k == RunLength(text, RefSeparators, p + 5)
        d == RunLength(text, Digits, p + 5 + k)
    IN  IF p > Len(text) THEN <<>>
        ELSE IF StartsWithAt(text, ImageWord, p) /\ k \in {1, 2} /\ d >= 1
             THEN <<SubSeq(text, p + 5 + k, p + 4 + k + d)>>
                      \o TextRefs(text, p + 5 + k + d)
        ELSE TextRefs(text, p + 1)

\* re.IGNORECASE: a character without its case, of the letters the texts
\* hold
IgnoreCase(c) == IF c = "I" THEN "i" ELSE LowerChar(c)

\* the length of the match of image[_\\]{1,2}<ref_num> at p, letters of
\* either case, or 0
RefMatch(text, ref_num, p) ==
    IF /\ p + 5 <= Len(text)
       /\ [j \in 1..5 |-> IgnoreCase(text[p + j - 1])] = ImageWord
       /\ text[p + 5] \in RefSeparators
    THEN IF /\ p + 6 <= Len(text)
            /\ text[p + 6] \in RefSeparators
            /\ StartsWithAt(text, ref_num, p + 7)
         THEN 7 + Len(ref_num)
         ELSE IF StartsWithAt(text, ref_num, p + 6) THEN 6 + Len(ref_num)
         ELSE 0
    ELSE 0

\* re.sub(rf'image[_\\]{{1,2}}{ref_num}', replacement, text,
\* flags=re.IGNORECASE) from p on
RECURSIVE SubRef(_, _, _, _)
SubRef(text, ref_num, replacement, p) ==
    LET n == RefMatch(text, ref_num, p)
    IN  IF p > Len(text) THEN <<>>
        ELSE IF n > 0
             THEN replacement \o SubRef(text, ref_num, replacement, p + n)
        ELSE <<text[p]>> \o SubRef(text, ref_num, replacement, p + 1)

\* image_mapping[f"image_{ref_num}"] for the digits ref_num
LookupRef(mapping, ref_num) ==
    LET found == {k \in DOMAIN mapping : Str(mapping[k].ref) = ref_num}
    IN  IF found = {} THEN None ELSE mapping[CHOOSE k \in found : TRUE]

\* the loop of lines 618-626: every text reference found before the loop,
\* in its turn, replaced everywhere by the image of its number
RECURSIVE ReplaceTextRefs(_, _, _)
ReplaceTextRefs(text, mapping, text_refs) ==
    IF text_refs = <<>> THEN text
    ELSE LET ref_num == Head(text_refs)
             entry == LookupRef(mapping, ref_num)
         IN  ReplaceTextRefs(
                 IF entry # None
                 THEN SubRef(text, ref_num, ImageMarkdown(ref_num, entry.url), 1)
                 ELSE text,
                 mapping, Tail(text_refs))

\* str.replace(old, new)
RECURSIVE ReplaceAll(_, _, _)
ReplaceAll(text, old, new) ==
    LET found == FindAll(text, old, 1)
    IN  IF old = <<>> \/ found = <<>> THEN text
        ELSE SubSeq(text, 1, found[1] - 1) \o new
                 \o ReplaceAll(From(text, found[1] + Len(old)), old, new)

\* whether a line is  \s*image[_\\]{1,2}[a-zA-Z0-9_]+\s*  and nothing else
RefLine(line) ==
    LET inner == Strip(line)
        rest == From(inner, 7)
        AllWord(t) == t # <<>> /\ Range(t) \subseteq WordChars
    IN  /\ StartsWithAt(inner, ImageWord, 1)
        /\ Len(inner) >= 7
        /\ inner[6] \in RefSeparators
        /\ \/ AllWord(rest)
           \/ rest[1] \in RefSeparators /\ AllWord(Tail(rest))

\* lines 630-635: the references that stand alone on a line, each removed
\* wherever it stands in the text
RECURSIVE RemoveRefs(_, _)
RemoveRefs(text, remaining_refs) ==
    IF remaining_refs = <<>> THEN text
    ELSE RemoveRefs(ReplaceAll(text, Strip(Head(remaining_refs)), <<>>),
                    Tail(remaining_refs))

\* re.sub(r'\n\s*\n\s*\n', '\n\n', text) from p on: a run of whitespace
\* that starts with a line break and holds three of them, up to its last
\* line break
RECURSIVE CollapseEmptyLines(_, _)
CollapseEmptyLines(text, p) ==
    LET w == RunLength(text, Whitespace, p)
        breaks == {i \in p..(p + w - 1) : text[i] = "\n"}
        last == CHOOSE i \in breaks : \A j \in breaks : j <= i
    IN  IF p > Len(text) THEN <<>>
        ELSE IF text[p] = "\n" /\ Cardinality(breaks) >= 3
             THEN <<"\n", "\n">> \o CollapseEmptyLines(text, last + 1)
        ELSE <<text[p]>> \o CollapseEmptyLines(text, p + 1)

\* DoclingHtmlToMarkdownConverter._replace_images_in_markdown_simple
ReplaceImagesInMarkdownSimple(text, mapping) ==
    LET placeholders == FindAll(text, Placeholder, 1)
        t1 == ReplaceByIndex(text, mapping, Len(placeholders), 0)
        t2 == ReplaceTextRefs(t1, mapping, TextRefs(t1, 1))
        remaining_refs == SelectSeq(SplitLines(t2), RefLine)
        t3 == RemoveRefs(t2, remaining_refs)
    IN  CollapseEmptyLines(t3, 1)

-----------------------------------------------------------------------------
(* Specification SpecImages: one call of a converter's replacement on a    *)
(* Markdown of at most MaxPieces pieces and a mapping of some of the       *)
(* pictures 0..MaxPictures - 1                                             *)

\* most pieces of the Markdown: a piece is a text or a placeholder
MaxPieces == 3
\* most pictures of the document
MaxPictures == 3

\* the entry of picture i: its URL and its caption
ImageEntry(i) ==
    [ref |-> i, url |-> <<"u">> \o Str(i), caption |-> <<"c">> \o Str(i)]

\* the mappings: the entries of the pictures that were not skipped, in the
\* order of the pictures
ImageMappings ==
    {SelectSeq([i \in 1..MaxPictures |-> ImageEntry(i - 1)],
               LAMBDA entry : entry.ref \in extracted) :
        extracted \in SUBSET (0..(MaxPictures - 1))}

\* the Markdown texts, piece by piece
ImageMarkdowns ==
    {[pieces |-> pieces, text |-> Concat(pieces)] :
        pieces \in SeqsUpTo({<<"x">>, Placeholder}, MaxPieces)}

InitImages ==
    /\ byteorder = "little"
    /\ converter \in {"word", "html"}
    /\ markdown_text \in ImageMarkdowns
    /\ image_mapping \in ImageMappings
    /\ replaced = None
    /\ SignatureIdle
    /\ JaccardIdle
    /\ DocumentIdle
    /\ FilterIdle
    /\ IndexIdle
    /\ MarkdownIdle
    /\ ThreadsIdle
    /\ SlicerIdle

\* self._replace_images_in_markdown(markdown_text, image_mapping) of the
\* Word converter
ReplaceWord ==
    /\ converter = "word"
    /\ replaced = None
    /\ replaced' = Returned(ReplaceImagesInMarkdown(markdown_text.text,
                                                    image_mapping))
    /\ UNCHANGED <<byteorder, sigVars, jacVars, docVars, filterVars, indexVars,
                   markdownVars, threadVars, slicerVars, converter,
                   markdown_text, image_mapping>>

\* self._replace_images_in_markdown_simple(markdown_text, image_mapping) of
\* the HTML converter
ReplaceHtml ==
    /\ converter = "html"
    /\ replaced = None
    /\ replaced' = Returned(ReplaceImagesInMarkdownSimple(markdown_text.text,
                                                          image_mapping))
    /\ UNCHANGED <<byteorder, sigVars, jacVars, docVars, filterVars, indexVars,
                   markdownVars, threadVars, slicerVars, converter,
                   markdown_text, image_mapping>>

NextImages ==
    \/ ReplaceWord
    \/ ReplaceHtml

SpecImages == InitImages /\ [][NextImages]_vars

-----------------------------------------------------------------------------
(* The placeholders and the images                                         *)

\* the number of placeholders among the first n pieces
PlaceholdersBefore(pieces, n) ==
    Cardinality({j \in 1..n : pieces[j] = Placeholder})

\* what the k-th placeholder (from 0) is to become: the image of the entry
\* image_k, and the placeholder itself when the mapping has no such entry
ImageOfPlace(k) ==
    LET entry == Lookup(image_mapping, k)
    IN  IF entry = None THEN Placeholder
        ELSE IF converter = "word"
             THEN ImageMarkdown(entry.caption, entry.url)
        ELSE ImageMarkdown(<<"U+56FE", "U+7247">> \o Str(k + 1), entry.url)

\* the Markdown with every placeholder replaced in the order of the document
ReplacedInOrder ==
    LET pieces == markdown_text.pieces
    IN  Concat([j \in 1..Len(pieces) |->
                   IF pieces[j] = Placeholder
                   THEN ImageOfPlace(PlaceholdersBefore(pieces, j - 1))
                   ELSE pieces[j]])

\* C30: in the Markdown a converter returns, the k-th placeholder, counted
\* in the order of the document, is replaced by the k-th extracted image
\* (the entry image_k of the mapping), whatever the number of placeholders
\* and of extracted images, also when they differ or an image was skipped
C30_PlaceholdersInOrder ==
    replaced # None => replaced.list = ReplacedInOrder

=============================================================================
